---- MODULE Spec2Model ----
(***************************************************************************)
(* A model of the render-orchestration core of sat_tools:                  *)
(*   - thumbnail/batch.py     BatchProcessor (process_directory,            *)
(*                            process_parallel, process_file)               *)
(*   - thumbnail/renderer.py  ThumbnailRenderer (cook_sbs, render,          *)
(*                            _render_material_ball, get_available_outputs) *)
(*                            and its functions find_best_graph,           *)
(*                            _parse_graph_info and the size exponent       *)
(*   - core/callback.py       CallbackManager / BakeCallback                *)
(* Each part has its own specification (SpecBatch, SpecRender,             *)
(* SpecCallback, SpecAsync, SpecSelect, SpecParse, SpecExponent,            *)
(* SpecTarget, SpecListing); the variables of the other parts stay at      *)
(* their initial values.                                                   *)
(***************************************************************************)
EXTENDS Integers, Sequences, FiniteSets, TLC

(***************************************************************************)
(* Bounds of the model.                                                     *)
(***************************************************************************)
MaxFiles == 3
MaxWorkersBound == 2
MaxEntries == 3

VARIABLES
    \* ---- BatchProcessor (thumbnail/batch.py) ----
    mode,           \* "directory" (process_directory) or "parallel" (process_parallel)
    nfiles,         \* len(files): the files are 1..nfiles in enumeration order
    max_workers,    \* self.max_workers
    bpc,            \* position of the batch call (the calling thread)
    submitted,      \* number of files handed to executor.submit so far
    dirIdx,         \* the loop index i of process_directory (1-based)
    ustate,         \* per file: "pending" | "running" | "finished"
    outcome,        \* per file: "none" | "ok" | "ok_meta_error" | "fail" | "raise"
    collected,      \* files whose future the as_completed loop has consumed
    results,        \* the local list `results` (file ids)
    errors,         \* the local list `errors` (file ids)
    success_count,  \* process_directory's success_count
    failed_count,   \* process_directory's failed_count
    batchResult,    \* the returned BatchResult, or NoResult
    writers,        \* history: the threads that have appended to results/errors
    \* ---- ThumbnailRenderer (thumbnail/renderer.py) ----
    rcfg,           \* the renderer object: which tools __init__ found
    rpc,            \* position inside the current render / get_available_outputs call
    loc,            \* the call's arguments and local variables
    tool,           \* the child process subprocess.run is waiting for, or NoTool
    fs,             \* the files and directories the call creates and deletes
    runs,           \* number of calls made so far
    \* ---- CallbackManager (core/callback.py) ----
    callbacks,      \* self._callbacks: kind -> list of BakeCallback
    created,        \* every BakeCallback register has returned, per kind
    mpc,            \* the calling thread: "idle" | "joining" (inside join)
    asyncQueue,     \* self._async_queue: 0 for None, else the id of the Queue
    asyncThread,    \* self._async_thread: 0 for None, else the id of the Thread
    queues,         \* the items of every Queue created, by id
    cpc,            \* per _async_worker thread: "get" | "dispatch" | "exited" | "crashed"
    cframe,         \* per _async_worker thread: its running invoke loop
    nEvents,        \* number of events handed to invoke* / queue_async so far
    lastSync,       \* history: the invoke loops the step just taken ran on the calling thread
    cinv,           \* history: per worker, the invoke loops of the queue item it is
                    \* handling or has handled in the step just taken
    \* ---- functions of ThumbnailRenderer (thumbnail/renderer.py) ----
    selGraphs,      \* the argument graphs of find_best_graph
    selResult,      \* the pair find_best_graph returned, or NotCalled
    info_output,    \* the argument of _parse_graph_info: the lines of the report
    parsedGraphs,   \* the list _parse_graph_info returned, or NotParsed
    flatResolution, \* the resolution argument of the flat render
    log2_res,       \* the result of the log2_res assignment, or NotComputed
    ballGraphName,  \* the graph_name argument of _render_material_ball
    ballGraphs,     \* the names of the graphs get_graph_info returned to it
    ballTarget,     \* the target graph it chose, or NotChosen
    \* ---- process_directory over the files of a directory ----
    dcfg,           \* the arguments and the directory's content
    lpc,            \* position of the call
    listing,        \* files: the list find_files returned
    lidx,           \* i + 1 for the loop index i of enumerate(files)
    progressCalls,  \* history: the calls of progress_callback so far
    processed,      \* history: the files handed to process_file so far
    outputPaths     \* history: the output_path process_file gave render, per file

batchVars == <<mode, nfiles, max_workers, bpc, submitted, dirIdx, ustate, outcome,
               collected, results, errors, success_count, failed_count,
               batchResult, writers>>

renderVars == <<rcfg, rpc, loc, tool, fs, runs>>

cbVars == <<callbacks, created, mpc, asyncQueue, asyncThread, queues,
            cpc, cframe, nEvents, lastSync, cinv>>

fnVars == <<selGraphs, selResult, info_output, parsedGraphs, flatResolution,
           log2_res, ballGraphName, ballGraphs, ballTarget>>

listVars == <<dcfg, lpc, listing, lidx, progressCalls, processed,
             outputPaths>>

vars == <<batchVars, renderVars, cbVars, fnVars, listVars>>

nonBatchVars == <<renderVars, cbVars, fnVars, listVars>>
nonRenderVars == <<batchVars, cbVars, fnVars, listVars>>
nonCbVars == <<batchVars, renderVars, fnVars, listVars>>
nonFnVars == <<batchVars, renderVars, cbVars, listVars>>
nonListVars == <<batchVars, renderVars, cbVars, fnVars>>

(***************************************************************************)
(* BatchProcessor                                                           *)
(***************************************************************************)
Files == 1..nfiles
NoResult == [total |-> -1, success |-> -1, failed |-> -1,
             results |-> <<>>, errors |-> <<>>]
\* Thread identities: 0 is the thread that called the batch method, u >= 1 the
\* pool thread running file u.
MainThread == 0
WorkerThread(u) == u

\* What ThumbnailRenderer.render can do to its caller: return
\* RenderResult(success=True), return RenderResult(success=False), or let an
\* exception escape (its try block has a finally and no except).
RenderOutcomes == {"success", "failure", "raises"}

\* process_file: the dict it returns, or the exception it lets through.
\* metaRaises: ThumbnailMetadata.create / MetadataWriter.write raised.
ProcessFile(renderOutcome, metaRaises) ==
    IF renderOutcome = "raises" THEN "raise"
    ELSE IF renderOutcome = "failure" THEN "fail"
    ELSE IF metaRaises THEN "ok_meta_error"
    ELSE "ok"

IsSuccess(o) == o \in {"ok", "ok_meta_error"}

Running == {u \in Files : ustate[u] = "running"}

\* ---- process_directory ----

\* files = find_files(...); if not files: return BatchResult(0, 0, 0)
DirBegin ==
    /\ UNCHANGED nonBatchVars
    /\ mode = "directory" /\ bpc = "start"
    /\ IF nfiles = 0
       THEN /\ bpc' = "returned"
            /\ batchResult' = [total |-> 0, success |-> 0, failed |-> 0,
                               results |-> <<>>, errors |-> <<>>]
       ELSE /\ bpc' = "loop"
            /\ UNCHANGED batchResult
    /\ UNCHANGED <<mode, nfiles, max_workers, submitted, dirIdx, ustate, outcome,
                   collected, results, errors, success_count, failed_count, writers>>

\* result = self.process_file(...) is entered for files[i]
DirCallFile ==
    /\ UNCHANGED nonBatchVars
    /\ mode = "directory" /\ bpc = "loop"
    /\ dirIdx <= nfiles
    /\ ustate[dirIdx] = "pending"
    /\ ustate' = [ustate EXCEPT ![dirIdx] = "running"]
    /\ UNCHANGED <<mode, nfiles, max_workers, bpc, submitted, dirIdx, outcome,
                   collected, results, errors, success_count, failed_count,
                   batchResult, writers>>

\* if result['success']: ... else: ...   (the body of the for loop)
DirRecord_NoFailedCount(u, o) ==
    /\ IF IsSuccess(o)
       THEN /\ success_count' = success_count + 1
            /\ results' = Append(results, u)
            /\ UNCHANGED <<failed_count, errors>>
       ELSE /\ errors' = Append(errors, u)
            /\ UNCHANGED <<success_count, results, failed_count>>
    /\ writers' = writers \cup {MainThread}

DirRecord(u, o) ==
    /\ IF IsSuccess(o)
       THEN /\ success_count' = success_count + 1
            /\ results' = Append(results, u)
            /\ UNCHANGED <<failed_count, errors>>
       ELSE /\ failed_count' = failed_count + 1
            /\ errors' = Append(errors, u)
            /\ UNCHANGED <<success_count, results>>
    /\ writers' = writers \cup {MainThread}

\* process_file returns (or raises) for files[i]; an exception is not caught
\* anywhere in process_directory and ends the call.
DirFileDone ==
    /\ UNCHANGED nonBatchVars
    /\ mode = "directory" /\ bpc = "loop"
    /\ dirIdx <= nfiles
    /\ ustate[dirIdx] = "running"
    /\ \E ro \in RenderOutcomes, mr \in BOOLEAN :
         LET o == ProcessFile(ro, mr) IN
           /\ ustate' = [ustate EXCEPT ![dirIdx] = "finished"]
           /\ outcome' = [outcome EXCEPT ![dirIdx] = o]
           /\ IF o = "raise"
              THEN /\ bpc' = "raised"
                   /\ UNCHANGED <<dirIdx, results, errors, success_count,
                                  failed_count, writers>>
              ELSE /\ DirRecord(dirIdx, o)
                   /\ dirIdx' = dirIdx + 1
                   /\ UNCHANGED bpc
    /\ UNCHANGED <<mode, nfiles, max_workers, submitted, collected, batchResult>>

\* return BatchResult(total=total, success=success_count, failed=failed_count, ...)
DirReturn ==
    /\ UNCHANGED nonBatchVars
    /\ mode = "directory" /\ bpc = "loop"
    /\ dirIdx > nfiles
    /\ bpc' = "returned"
    /\ batchResult' = [total |-> nfiles, success |-> success_count,
                       failed |-> failed_count,
                       results |-> results, errors |-> errors]
    /\ UNCHANGED <<mode, nfiles, max_workers, submitted, dirIdx, ustate, outcome,
                   collected, results, errors, success_count, failed_count, writers>>

\* ---- process_parallel ----

\* with ThreadPoolExecutor(max_workers=self.max_workers) as executor:
ParBegin ==
    /\ UNCHANGED nonBatchVars
    /\ mode = "parallel" /\ bpc = "start"
    /\ bpc' = "submitting"
    /\ UNCHANGED <<mode, nfiles, max_workers, submitted, dirIdx, ustate, outcome,
                   collected, results, errors, success_count, failed_count,
                   batchResult, writers>>

\* futures = {executor.submit(self.process_file, ...): f for f in files}
ParSubmit ==
    /\ UNCHANGED nonBatchVars
    /\ mode = "parallel" /\ bpc = "submitting"
    /\ IF submitted < nfiles
       THEN submitted' = submitted + 1 /\ UNCHANGED bpc
       ELSE bpc' = "collecting" /\ UNCHANGED submitted
    /\ UNCHANGED <<mode, nfiles, max_workers, dirIdx, ustate, outcome,
                   collected, results, errors, success_count, failed_count,
                   batchResult, writers>>

\* The pool runs at most max_workers threads: a queued work item starts only
\* when a worker thread is free.
WorkerAvailable_Unbounded == TRUE

WorkerAvailable == Cardinality(Running) < max_workers

\* A pool thread takes the oldest queued work item and enters process_file.
WorkerStart(u) ==
    /\ UNCHANGED nonBatchVars
    /\ mode = "parallel"
    /\ u <= submitted
    /\ ustate[u] = "pending"
    /\ \A v \in 1..(u - 1) : ustate[v] # "pending"
    /\ WorkerAvailable
    /\ ustate' = [ustate EXCEPT ![u] = "running"]
    /\ UNCHANGED <<mode, nfiles, max_workers, bpc, submitted, dirIdx, outcome,
                   collected, results, errors, success_count, failed_count,
                   batchResult, writers>>

\* process_file returns or raises inside the pool thread: the future holds the
\* dict or the exception. The worker touches neither `results` nor `errors`.
WorkerFinish_WritesAggregate(u, o) ==
    /\ ustate' = [ustate EXCEPT ![u] = "finished"]
    /\ outcome' = [outcome EXCEPT ![u] = o]
    /\ collected' = collected \cup {u}
    /\ IF IsSuccess(o)
       THEN results' = Append(results, u) /\ UNCHANGED errors
       ELSE errors' = Append(errors, u) /\ UNCHANGED results
    /\ writers' = writers \cup {WorkerThread(u)}

WorkerFinish(u, o) ==
    /\ ustate' = [ustate EXCEPT ![u] = "finished"]
    /\ outcome' = [outcome EXCEPT ![u] = o]
    /\ UNCHANGED <<collected, results, errors, writers>>

WorkerDone(u) ==
    /\ UNCHANGED nonBatchVars
    /\ mode = "parallel"
    /\ ustate[u] = "running"
    /\ \E ro \in RenderOutcomes, mr \in BOOLEAN : WorkerFinish(u, ProcessFile(ro, mr))
    /\ UNCHANGED <<mode, nfiles, max_workers, bpc, submitted, dirIdx,
                   success_count, failed_count, batchResult>>

\* for future in as_completed(futures): one iteration, on a finished future
\* that has not been yielded yet. future.result() re-raises the unit's
\* exception, which `except Exception` turns into an errors entry.
ParCollect(u) ==
    /\ UNCHANGED nonBatchVars
    /\ mode = "parallel" /\ bpc = "collecting"
    /\ ustate[u] = "finished"
    /\ u \notin collected
    /\ collected' = collected \cup {u}
    /\ IF IsSuccess(outcome[u])
       THEN results' = Append(results, u) /\ UNCHANGED errors
       ELSE errors' = Append(errors, u) /\ UNCHANGED results
    /\ writers' = writers \cup {MainThread}
    /\ UNCHANGED <<mode, nfiles, max_workers, bpc, submitted, dirIdx, ustate,
                   outcome, success_count, failed_count, batchResult>>

\* as_completed(futures) is exhausted when every future has been yielded.
AsCompletedExhausted_FinishedOnly ==
    \A u \in Files : ustate[u] = "finished" => u \in collected

AsCompletedExhausted == \A u \in Files : u \in collected

\* The loop ends, the with block joins the pool, and the BatchResult is built.
ParReturn ==
    /\ UNCHANGED nonBatchVars
    /\ mode = "parallel" /\ bpc = "collecting"
    /\ AsCompletedExhausted
    /\ bpc' = "returned"
    /\ batchResult' = [total |-> nfiles, success |-> Len(results),
                       failed |-> Len(errors),
                       results |-> results, errors |-> errors]
    /\ UNCHANGED <<mode, nfiles, max_workers, submitted, dirIdx, ustate, outcome,
                   collected, results, errors, success_count, failed_count, writers>>

BatchNext ==
    \/ DirBegin
    \/ DirCallFile
    \/ DirFileDone
    \/ DirReturn
    \/ ParBegin
    \/ ParSubmit
    \/ \E u \in Files : WorkerStart(u)
    \/ \E u \in Files : WorkerDone(u)
    \/ \E u \in Files : ParCollect(u)
    \/ ParReturn

(***************************************************************************)
(* ThumbnailRenderer                                                        *)
(***************************************************************************)
MaxRuns == 2

\* timeout= arguments of the subprocess.run calls; NoTimeout: none is passed.
CookTimeout == 300
InfoTimeout == 30
NoTimeout == 0

\* len(maps_to_render): basecolor, normal, roughness, metallic, height, emissive
NumMapTypes == 6
MapTypes == 1..NumMapTypes

NoTool == [name |-> "none", timeout |-> NoTimeout]

\* result.returncode when subprocess.run did not return.
NoExit == -1

\* A text is the sequence of the parts an f-string joins; NoText: None.
NoText == <<>>

\* result.stderr of sbscooker
StderrTexts == {"", "cannot open input"}

\* The error texts of cook_sbs.
NoCookerError == <<"sbscooker not found. Check SAT installation path.">>
SbsNotFoundError == <<"SBS file not found: ", "sbs_path">>
NotCreatedError == <<"SBSAR file not created: ", "sbsar_path">>
CookFailedError(stderr) == <<"sbscooker failed: ">> \o stderr
CookingFailedError == <<"Cooking failed: ", "str(e)">>

\* The directories a call reads and writes: the directory of the source
\* file, the output directory (Path(output_path).parent, or a fresh
\* sat_thumb_ / sat_mb_final_ directory when output_path is None), and the
\* fresh directories of tempfile.mkdtemp for cooking and for the channels.
\* They are named "source", "output", "sat_cook" and "sat_mb_maps".

\* cook_sbs with output_path None: output_dir = tempfile.mkdtemp(prefix=
\* 'sat_cook_'), sbsar_path = os.path.join(output_dir, stem + '.sbsar').
CookDir_NextToSource == "source"

CookDir == "sat_cook"

\* shutil.rmtree(dir, ignore_errors=True)
RemoveTree(disk, dir) ==
    CASE dir = "sat_cook" ->
           [disk EXCEPT !.cookFile = FALSE, !.cookDir = FALSE]
      [] dir = "sat_mb_maps" ->
           [disk EXCEPT !.mapsDir = FALSE, !.mapFiles = {}]
      [] dir = "source" -> [disk EXCEPT !.srcFile = FALSE]
      [] dir = "output" -> [disk EXCEPT !.outFile = FALSE, !.outOther = FALSE]
      [] OTHER -> disk

\* The subprocess.run call sites: sbscooker (cook_sbs), sbsrender info
\* (get_graph_info from the composite and the flat path, and
\* get_available_outputs), the per-channel render, the composite's second
\* pass and the flat render.
InfoSites == {"info_ball", "info_flat", "info_gao"}
RenderSites == {"map", "final", "flat"}
Sites == {"cook"} \cup InfoSites \cup RenderSites

SiteTimeout(site) ==
    CASE site = "cook" -> CookTimeout
      [] site \in InfoSites -> InfoTimeout
      [] OTHER -> NoTimeout

\* Arguments of a call. resolution is only read by the flat path
\* (math.log2(resolution)).
RenderInputs ==
    [isSbs : BOOLEAN, srcExists : BOOLEAN, useBall : BOOLEAN,
     outGiven : BOOLEAN, graphGiven : BOOLEAN, resolution : {0, 256}]

NoInput ==
    [isSbs |-> FALSE, srcExists |-> FALSE, useBall |-> FALSE,
     outGiven |-> FALSE, graphGiven |-> FALSE, resolution |-> 256]

\* Local variables at the start of a call.
FreshLocals(op, inp) ==
    [op |-> op, inp |-> inp,
     cookOk |-> FALSE,        \* success returned by cook_sbs
     cookPath |-> FALSE,      \* the path returned by cook_sbs is not ''
     cookExit |-> NoExit,     \* history: result.returncode of sbscooker
     cookStderr |-> NoText,   \* history: result.stderr of sbscooker, kept
                              \* until the caller has taken cook_sbs' result
     cookError |-> NoText,    \* the error returned by cook_sbs (<<>>: None)
     temp_sbsar |-> FALSE,    \* temp_sbsar / temp_sbsar_dir are set
     temp_sbsar_dir |-> "none",  \* the directory temp_sbsar_dir names
     graphs |-> FALSE,        \* get_graph_info returned a non-empty list
     mapIdx |-> 1,            \* position in maps_to_render
     rendered_maps |-> {},
     entries |-> {},          \* the --set-entry arguments of the second pass
     renderExit |-> NoExit,   \* history: result.returncode of the second
                              \* pass or of the flat render
     exc |-> FALSE,           \* an exception is propagating
     success |-> FALSE]       \* RenderResult.success

\* No temporary directory exists; left* count the directories that earlier
\* calls left on disk.
EmptyDisk ==
    [srcFile |-> FALSE,       \* the caller's source file
     cookDir |-> FALSE, cookFile |-> FALSE,
     mapsDir |-> FALSE, mapFiles |-> {},
     outFile |-> FALSE,       \* the file at the expected output path
     outOther |-> FALSE,      \* another file with the output format's
                              \* extension in the output directory
     leftCook |-> 0, leftMaps |-> 0]

CallOver == rpc \in {"idle", "returned", "raised"}

\* The disk as the next call finds it: the source file exists or not, and
\* what the last call left is counted.
DiskAtCall(inp) ==
    [fs EXCEPT !.srcFile = inp.srcExists,
               !.cookDir = FALSE, !.cookFile = FALSE,
               !.mapsDir = FALSE, !.mapFiles = {}, !.outFile = FALSE,
               !.outOther = FALSE,
               !.leftCook = fs.leftCook + (IF fs.cookDir THEN 1 ELSE 0),
               !.leftMaps = fs.leftMaps + (IF fs.mapsDir THEN 1 ELSE 0)]

\* render(), up to the decision to cook: sbsrender missing and a missing
\* source file return a failure RenderResult at once.
CallRender(inp) ==
    /\ UNCHANGED nonRenderVars
    /\ CallOver /\ runs < MaxRuns
    /\ runs' = runs + 1
    /\ loc' = FreshLocals("render", inp)
    /\ fs' = DiskAtCall(inp)
    /\ rpc' = IF ~rcfg.sbsrender \/ ~inp.srcExists THEN "returned"
              ELSE IF inp.isSbs THEN "cook_start"
              ELSE "try"
    /\ UNCHANGED <<rcfg, tool>>

\* get_available_outputs(), up to the decision to cook.
CallGetAvailableOutputs(inp) ==
    /\ UNCHANGED nonRenderVars
    /\ CallOver /\ runs < MaxRuns
    /\ runs' = runs + 1
    /\ loc' = FreshLocals("get_available_outputs", inp)
    /\ fs' = DiskAtCall(inp)
    /\ rpc' = IF ~rcfg.sbsrender THEN "returned"
              ELSE IF inp.isSbs THEN "cook_start"
              ELSE "info_gao"
    /\ UNCHANGED <<rcfg, tool>>

\* cook_sbs(sbs_path) with output_path None, up to subprocess.run: the two
\* early failure returns, then tempfile.mkdtemp(prefix='sat_cook_'), which
\* is outside every try block of cook_sbs and of its callers.
CookStart ==
    /\ UNCHANGED nonRenderVars
    /\ rpc = "cook_start"
    /\ IF ~rcfg.sbscooker \/ ~loc.inp.srcExists
       THEN /\ rpc' = "cooked"
            /\ loc' = [loc EXCEPT !.cookError =
                           IF ~rcfg.sbscooker THEN NoCookerError
                           ELSE SbsNotFoundError]
            /\ UNCHANGED fs
       ELSE \E dirMade \in BOOLEAN :
              IF dirMade
              THEN /\ fs' = [fs EXCEPT !.cookDir = TRUE]
                   /\ rpc' = "cook"
                   /\ UNCHANGED loc
              ELSE /\ loc' = [loc EXCEPT !.exc = TRUE]
                   /\ rpc' = "raised"
                   /\ UNCHANGED fs
    /\ UNCHANGED <<rcfg, tool, runs>>

\* After cook_sbs returned (success, sbsar_path, error) to its caller.
Cooked ==
    /\ UNCHANGED nonRenderVars
    /\ rpc = "cooked"
    /\ IF ~loc.cookOk
       THEN /\ rpc' = "returned"
            /\ loc' = [loc EXCEPT !.cookStderr = NoText]
       ELSE /\ loc' = [loc EXCEPT !.temp_sbsar = TRUE,
                                  !.temp_sbsar_dir = CookDir,
                                  !.cookStderr = NoText]
            /\ rpc' = IF loc.op = "render" THEN "try" ELSE "info_gao"
    /\ UNCHANGED <<rcfg, tool, fs, runs>>

\* render's try block: the composite path or the flat path.
Try ==
    /\ UNCHANGED nonRenderVars
    /\ rpc = "try"
    /\ rpc' = IF loc.inp.useBall /\ rcfg.ball THEN "ball_start"
              ELSE IF ~loc.inp.graphGiven THEN "info_flat"
              ELSE "flat_out"
    /\ UNCHANGED <<rcfg, loc, tool, fs, runs>>

\* _render_material_ball: temp_dir = tempfile.mkdtemp(prefix='sat_mb_maps_'),
\* just before its try block.
BallStart ==
    /\ UNCHANGED nonRenderVars
    /\ rpc = "ball_start"
    /\ \E dirMade \in BOOLEAN :
         IF dirMade
         THEN /\ fs' = [fs EXCEPT !.mapsDir = TRUE]
              /\ rpc' = "info_ball"
              /\ UNCHANGED loc
         ELSE /\ loc' = [loc EXCEPT !.exc = TRUE]
              /\ rpc' = "finally"
              /\ UNCHANGED fs
    /\ UNCHANGED <<rcfg, tool, runs>>

\* for map_type, possible_names in maps_to_render.items(): one iteration up
\* to the subprocess.run; found: the target graph has an output for the role.
MapSelect ==
    /\ UNCHANGED nonRenderVars
    /\ rpc = "map_select"
    /\ IF loc.mapIdx > NumMapTypes
       THEN rpc' = "ball_out" /\ UNCHANGED loc
       ELSE \E found \in BOOLEAN :
              IF found
              THEN rpc' = "map" /\ UNCHANGED loc
              ELSE /\ loc' = [loc EXCEPT !.mapIdx = loc.mapIdx + 1]
                   /\ UNCHANGED rpc
    /\ UNCHANGED <<rcfg, tool, fs, runs>>

\* The output directory: tempfile.mkdtemp when output_path is None, else
\* Path(output_path).parent.mkdir(parents=True, exist_ok=True); then the
\* command of the second pass with one --set-entry per item of rendered_maps.
BallOut ==
    /\ UNCHANGED nonRenderVars
    /\ rpc = "ball_out"
    /\ \E dirMade \in BOOLEAN :
         IF dirMade
         THEN /\ rpc' = "final"
              /\ loc' = [loc EXCEPT !.entries = loc.rendered_maps]
         ELSE /\ loc' = [loc EXCEPT !.exc = TRUE]
              /\ rpc' = "ball_finally"
    /\ UNCHANGED <<rcfg, tool, fs, runs>>

\* finally: shutil.rmtree(temp_dir, ignore_errors=True)
BallFinally_KeepsOnException ==
    /\ UNCHANGED nonRenderVars
    /\ rpc = "ball_finally"
    /\ fs' = IF loc.exc THEN fs
             ELSE [fs EXCEPT !.mapsDir = FALSE, !.mapFiles = {}]
    /\ rpc' = "finally"
    /\ UNCHANGED <<rcfg, loc, tool, runs>>

BallFinally ==
    /\ UNCHANGED nonRenderVars
    /\ rpc = "ball_finally"
    /\ fs' = [fs EXCEPT !.mapsDir = FALSE, !.mapFiles = {}]
    /\ rpc' = "finally"
    /\ UNCHANGED <<rcfg, loc, tool, runs>>

\* The flat path after get_graph_info: the output directory, then
\* log2_res = max(5, min(13, int(math.log2(resolution)))), which raises
\* ValueError for resolution <= 0.
FlatOut ==
    /\ UNCHANGED nonRenderVars
    /\ rpc = "flat_out"
    /\ \E dirMade \in BOOLEAN :
         IF dirMade /\ loc.inp.resolution > 0
         THEN rpc' = "flat" /\ UNCHANGED loc
         ELSE /\ loc' = [loc EXCEPT !.exc = TRUE]
              /\ rpc' = "finally"
    /\ UNCHANGED <<rcfg, tool, fs, runs>>

\* render's finally: unlink temp_sbsar, rmtree temp_sbsar_dir.
Finally ==
    /\ UNCHANGED nonRenderVars
    /\ rpc = "finally"
    /\ fs' = IF loc.temp_sbsar
             THEN RemoveTree([fs EXCEPT !.cookFile = FALSE],
                             loc.temp_sbsar_dir)
             ELSE fs
    /\ rpc' = IF loc.exc THEN "raised" ELSE "returned"
    /\ UNCHANGED <<rcfg, loc, tool, runs>>

\* get_available_outputs' finally: only Path(temp_sbsar).unlink().
GaoFinally ==
    /\ UNCHANGED nonRenderVars
    /\ rpc = "gao_finally"
    /\ fs' = IF loc.temp_sbsar THEN [fs EXCEPT !.cookFile = FALSE] ELSE fs
    /\ rpc' = "returned"
    /\ UNCHANGED <<rcfg, loc, tool, runs>>

\* ---- the subprocess.run call sites ----

\* cook_sbs: if result.returncode == 0: if Path(sbsar_path).exists(): success
CookSuccess_ExitCodeOnly(rc, exists) == rc = 0

CookSuccess(rc, exists) == rc = 0 /\ exists

\* cook_sbs' error when subprocess.run returned
CookError(rc, exists, stderr) ==
    IF rc = 0
    THEN (IF exists THEN NoText ELSE NotCreatedError)
    ELSE CookFailedError(stderr)

\* _render_material_ball: if os.path.exists(map_file_path):
\*     rendered_maps[map_type] = map_file_path
RenderedMaps_Always(rendered, map_type, exists) == rendered \cup {map_type}

RenderedMaps(rendered, map_type, exists) ==
    IF exists THEN rendered \cup {map_type} ELSE rendered

\* The flat render and the second pass: if result.returncode == 0:
\* if actual_output.exists(): success. No other file is looked for.
RenderSuccess(rc, exact, other) == rc = 0 /\ exact

\* subprocess.run raised at a site (the process could not be spawned, or
\* TimeoutExpired). cook_sbs and get_graph_info catch Exception and
\* get_available_outputs has a bare except; the three render sites are in no
\* except block, only in the finally blocks.
SiteRaised(site) ==
    CASE site = "cook" ->
           /\ loc' = [loc EXCEPT !.cookOk = FALSE, !.cookPath = FALSE,
                                 !.cookError = CookingFailedError]
           /\ rpc' = "cooked"
           /\ UNCHANGED fs
      [] site = "info_ball" ->
           /\ loc' = [loc EXCEPT !.graphs = FALSE]
           /\ rpc' = "ball_finally"
           /\ UNCHANGED fs
      [] site = "info_flat" ->
           /\ loc' = [loc EXCEPT !.graphs = FALSE]
           /\ rpc' = "flat_out"
           /\ UNCHANGED fs
      [] site = "info_gao" ->
           /\ rpc' = "gao_finally"
           /\ UNCHANGED <<loc, fs>>
      [] site \in {"map", "final"} ->
           /\ loc' = [loc EXCEPT !.exc = TRUE]
           /\ rpc' = "ball_finally"
           /\ UNCHANGED fs
      [] site = "flat" ->
           /\ loc' = [loc EXCEPT !.exc = TRUE]
           /\ rpc' = "finally"
           /\ UNCHANGED fs

\* subprocess.run returned at a site with exit code rc and result.stderr
\* stderr; made: the file the call looks for afterwards exists (for the info
\* sites: stdout lists at least one graph); other: the output directory
\* holds another file with the output format's extension.
SiteExited(site, rc, made, other, stderr) ==
    CASE site = "cook" ->
           /\ fs' = [fs EXCEPT !.cookFile = made]
           /\ loc' = [loc EXCEPT !.cookOk = CookSuccess(rc, made),
                                 !.cookPath = CookSuccess(rc, made),
                                 !.cookExit = rc,
                                 !.cookStderr = stderr,
                                 !.cookError = CookError(rc, made, stderr)]
           /\ rpc' = "cooked"
      [] site = "info_ball" ->
           /\ loc' = [loc EXCEPT !.graphs = (rc = 0 /\ made)]
           /\ rpc' = IF rc = 0 /\ made THEN "map_select" ELSE "ball_finally"
           /\ UNCHANGED fs
      [] site = "info_flat" ->
           /\ loc' = [loc EXCEPT !.graphs = (rc = 0 /\ made)]
           /\ rpc' = "flat_out"
           /\ UNCHANGED fs
      [] site = "info_gao" ->
           /\ rpc' = "gao_finally"
           /\ UNCHANGED <<loc, fs>>
      [] site = "map" ->
           /\ fs' = IF made
                    THEN [fs EXCEPT !.mapFiles = fs.mapFiles \cup {loc.mapIdx}]
                    ELSE fs
           /\ loc' = [loc EXCEPT
                        !.rendered_maps =
                            RenderedMaps(loc.rendered_maps, loc.mapIdx, made),
                        !.mapIdx = loc.mapIdx + 1]
           /\ rpc' = "map_select"
      [] site = "final" ->
           /\ fs' = [fs EXCEPT !.outFile = made, !.outOther = other]
           /\ loc' = [loc EXCEPT !.success = RenderSuccess(rc, made, other),
                                 !.renderExit = rc]
           /\ rpc' = "ball_finally"
      [] site = "flat" ->
           /\ fs' = [fs EXCEPT !.outFile = made, !.outOther = other]
           /\ loc' = [loc EXCEPT !.success = RenderSuccess(rc, made, other),
                                 !.renderExit = rc]
           /\ rpc' = "finally"

\* subprocess.run(cmd, ...) is entered: the child starts, or the spawn fails
\* with OSError.
Spawn(site) ==
    /\ UNCHANGED nonRenderVars
    /\ rpc = site /\ tool = NoTool
    /\ \E started \in BOOLEAN :
         IF started
         THEN /\ tool' = [name |-> site, timeout |-> SiteTimeout(site)]
              /\ UNCHANGED <<rpc, loc, fs>>
         ELSE /\ SiteRaised(site)
              /\ UNCHANGED tool
    /\ UNCHANGED <<rcfg, runs>>

\* The child exits and subprocess.run returns.
ToolExit(site) ==
    /\ UNCHANGED nonRenderVars
    /\ tool.name = site
    /\ \E rc \in {0, 1}, made \in BOOLEAN :
         \E other \in (IF site = "flat" THEN BOOLEAN ELSE {FALSE}),
            stderr \in (IF site = "cook" THEN {<<t>> : t \in StderrTexts}
                        ELSE {NoText}) :
            SiteExited(site, rc, made, other, stderr)
    /\ tool' = NoTool
    /\ UNCHANGED <<rcfg, runs>>

\* The call's timeout expires: the child is killed and TimeoutExpired is
\* raised. A call without timeout= waits for the child's exit only.
ToolTimeout(site) ==
    /\ UNCHANGED nonRenderVars
    /\ tool.name = site
    /\ tool.timeout # NoTimeout
    /\ SiteRaised(site)
    /\ tool' = NoTool
    /\ UNCHANGED <<rcfg, runs>>

RenderNext ==
    \/ \E inp \in RenderInputs : CallRender(inp)
    \/ \E inp \in RenderInputs : CallGetAvailableOutputs(inp)
    \/ CookStart
    \/ Cooked
    \/ Try
    \/ BallStart
    \/ MapSelect
    \/ BallOut
    \/ BallFinally
    \/ FlatOut
    \/ Finally
    \/ GaoFinally
    \/ \E site \in Sites : Spawn(site)
    \/ \E site \in Sites : ToolExit(site)
    \/ \E site \in Sites : ToolTimeout(site)

(***************************************************************************)
(* CallbackManager                                                          *)
(***************************************************************************)
MaxRegs == 2
MaxEvents == 2
MaxStarts == 2

\* CallbackType
Kinds == {"on_success", "on_error", "on_progress", "on_complete"}
\* The handler functions the callers register.
Handlers == {"h"}

\* The (None, None) item stop_async_processing puts on the queue.
Sentinel == [kind |-> "none", data |-> 0]

\* The data dict of event n, and {**data, 'status': status}.
Payload(n, status) == [data |-> n, status |-> status]

RegIds(lst) == [i \in 1..Len(lst) |-> lst[i].id]

\* The record kept of an execution of invoke(kind, payload): the callbacks
\* registered for the kind when it began, the callbacks it has called so far
\* (by object id, in order), the position of the first handler that raised
\* (0: none), whether the loop is over and, from then on, the on_complete
\* callbacks that were registered when it ended.
NewInvoke(op, kind, payload) ==
    [op |-> op, kind |-> kind, payload |-> payload,
     startRegs |-> RegIds(callbacks[kind]),
     calls |-> <<>>, firstRaise |-> 0, done |-> FALSE, completeRegs |-> <<>>]

NoFrame == [kind |-> "none", lst |-> <<>>, live |-> FALSE, idx |-> 1]

\* for callback in self._callbacks[callback_type]: the loop starts. lst is
\* the list object being iterated; live: self._callbacks[kind] is still that
\* object (register appends to it in place, unregister rebinds the entry).
NewFrame(kind) ==
    [kind |-> kind, lst |-> callbacks[kind], live |-> TRUE, idx |-> 1]

\* BakeCallback.invoke: self.handler(data) inside try / except Exception, so
\* the loop of CallbackManager.invoke goes on with the next callback whether
\* the handler raised or not. The result is the next loop position.
HandlerReturn_Propagates(idx, len, raised) == IF raised THEN len + 1 ELSE idx + 1

HandlerReturn(idx, len, raised) == idx + 1

\* The whole loop of invoke over the list lst, from position idx, when the
\* handler at position raiseAt (0: none) is the first to raise: the callbacks
\* called, in order.
RECURSIVE InvokeLoop(_, _, _, _)
InvokeLoop(lst, idx, raiseAt, acc) ==
    IF idx > Len(lst) THEN acc
    ELSE InvokeLoop(lst, HandlerReturn(idx, Len(lst), idx = raiseAt), raiseAt,
                    Append(acc, lst[idx].id))

\* invoke(kind, payload) run to its end by the calling thread.
RunInvoke(op, kind, payload, raiseAt) ==
    [NewInvoke(op, kind, payload) EXCEPT
        !.calls = InvokeLoop(callbacks[kind], 1, raiseAt, <<>>),
        !.firstRaise = raiseAt,
        !.done = TRUE,
        !.completeRegs = RegIds(callbacks["on_complete"])]

\* The histories a step leaves behind: the loops still running. The loops
\* that were over before the step are dropped.
StillRunning == [t \in DOMAIN cinv |-> IF cpc[t] = "dispatch" THEN cinv[t] ELSE <<>>]

\* dataclass equality of two BakeCallback objects: the generated __eq__
\* compares the fields (callback_type, handler, name).
SameFields(c, d) == c.kind = d.kind /\ c.handler = d.handler /\ c.name = d.name

\* Number of BakeCallback objects created so far.
RegCount ==
    Len(created["on_success"]) + Len(created["on_error"])
       + Len(created["on_progress"]) + Len(created["on_complete"])

\* register(callback_type, handler): a new BakeCallback (id: its identity,
\* the kind and the rank among the objects created for the kind) with the
\* default name
\* f"{callback_type.value}_{len(self._callbacks[callback_type])}" is appended
\* in place; a worker iterating that list object sees the new element.
Register(kind, h) ==
    /\ UNCHANGED nonCbVars
    /\ mpc = "idle"
    /\ RegCount < MaxRegs
    /\ LET cb == [id |-> <<kind, Len(created[kind]) + 1>>, kind |-> kind,
                  handler |-> h, name |-> Len(callbacks[kind])] IN
         /\ callbacks' = [callbacks EXCEPT ![kind] = Append(@, cb)]
         /\ created' = [created EXCEPT ![kind] = Append(@, cb)]
         /\ cframe' = [t \in DOMAIN cframe |->
                         IF cpc[t] = "dispatch" /\ cframe[t].kind = kind
                            /\ cframe[t].live
                         THEN [cframe[t] EXCEPT !.lst = Append(@, cb)]
                         ELSE cframe[t]]
    /\ lastSync' = <<>>
    /\ cinv' = StillRunning
    /\ UNCHANGED <<mpc, asyncQueue, asyncThread, queues, cpc, nEvents>>

\* unregister(callback): the entry is rebound to a new list without the
\* elements equal to callback; a running loop keeps iterating the old list.
Unregister(kind, n) ==
    /\ UNCHANGED nonCbVars
    /\ mpc = "idle"
    /\ n \in 1..Len(created[kind])
    /\ LET cb == created[kind][n] IN
         /\ callbacks' = [callbacks EXCEPT ![cb.kind] =
                             SelectSeq(@, LAMBDA c : ~SameFields(c, cb))]
         /\ cframe' = [t \in DOMAIN cframe |->
                         IF cframe[t].kind = cb.kind
                         THEN [cframe[t] EXCEPT !.live = FALSE]
                         ELSE cframe[t]]
    /\ lastSync' = <<>>
    /\ cinv' = StillRunning
    /\ UNCHANGED <<created, mpc, asyncQueue, asyncThread, queues, cpc, nEvents>>

\* invoke(kind, data) by the calling thread (invoke_progress(data) is
\* invoke(ON_PROGRESS, data)). The loop reads only self._callbacks, which no
\* other thread writes, so it is one step of the model.
Invoke(kind) ==
    /\ UNCHANGED nonCbVars
    /\ mpc = "idle"
    /\ nEvents < MaxEvents
    /\ nEvents' = nEvents + 1
    /\ \E raiseAt \in 0..Len(callbacks[kind]) :
         lastSync' = << RunInvoke("invoke", kind, Payload(nEvents + 1, "none"),
                                  raiseAt) >>
    /\ cinv' = StillRunning
    /\ UNCHANGED <<callbacks, created, mpc, asyncQueue, asyncThread, queues, cpc,
                   cframe>>

\* invoke_success(data) / invoke_error(data): self.invoke(kind, data), then
\* self.invoke(ON_COMPLETE, {**data, 'status': status}).
InvokeWithComplete(op, kind, status) ==
    /\ UNCHANGED nonCbVars
    /\ mpc = "idle"
    /\ nEvents < MaxEvents
    /\ nEvents' = nEvents + 1
    /\ \E r1 \in 0..Len(callbacks[kind]),
          r2 \in 0..Len(callbacks["on_complete"]) :
         lastSync' =
            << RunInvoke(op, kind, Payload(nEvents + 1, "none"), r1),
               RunInvoke(op, "on_complete", Payload(nEvents + 1, status), r2) >>
    /\ cinv' = StillRunning
    /\ UNCHANGED <<callbacks, created, mpc, asyncQueue, asyncThread, queues, cpc,
                   cframe>>

invoke_success == InvokeWithComplete("invoke_success", "on_success", "success")

invoke_error == InvokeWithComplete("invoke_error", "on_error", "error")

\* start_async_processing: nothing when a thread is registered, else a new
\* Queue and a new daemon Thread running _async_worker.
StartAsync ==
    /\ UNCHANGED nonCbVars
    /\ mpc = "idle"
    /\ asyncThread = 0
    /\ Len(cpc) < MaxStarts
    /\ queues' = Append(queues, <<>>)
    /\ cpc' = Append(cpc, "get")
    /\ cframe' = Append(cframe, NoFrame)
    /\ cinv' = Append(StillRunning, <<>>)
    /\ asyncQueue' = Len(queues) + 1
    /\ asyncThread' = Len(cpc) + 1
    /\ lastSync' = <<>>
    /\ UNCHANGED <<callbacks, created, mpc, nEvents>>

\* queue_async(kind, data): put on the queue if there is one, else nothing.
QueueAsync(kind) ==
    /\ UNCHANGED nonCbVars
    /\ mpc = "idle"
    /\ nEvents < MaxEvents
    /\ nEvents' = nEvents + 1
    /\ IF asyncQueue # 0
       THEN queues' = [queues EXCEPT ![asyncQueue] =
                          Append(@, [kind |-> kind, data |-> nEvents + 1])]
       ELSE UNCHANGED queues
    /\ lastSync' = <<>>
    /\ cinv' = StillRunning
    /\ UNCHANGED <<callbacks, created, mpc, asyncQueue, asyncThread, cpc, cframe>>

\* stop_async_processing up to the join: put (None, None), then
\* self._async_thread.join(timeout=5.0).
StopBegin ==
    /\ UNCHANGED nonCbVars
    /\ mpc = "idle"
    /\ asyncThread # 0
    /\ queues' = [queues EXCEPT ![asyncQueue] = Append(@, Sentinel)]
    /\ mpc' = "joining"
    /\ lastSync' = <<>>
    /\ cinv' = StillRunning
    /\ UNCHANGED <<callbacks, created, asyncQueue, asyncThread, cpc, cframe,
                   nEvents>>

\* join returns: the worker has ended, or 5 seconds have passed while it is
\* inside a handler or waiting on an empty queue (another thread took the
\* (None, None) item). Then _async_thread = None and _async_queue = None.
StopEnd ==
    /\ UNCHANGED nonCbVars
    /\ mpc = "joining"
    /\ \/ cpc[asyncThread] \in {"exited", "crashed", "dispatch"}
       \/ cpc[asyncThread] = "get" /\ queues[asyncQueue] = <<>>
    /\ asyncThread' = 0
    /\ asyncQueue' = 0
    /\ mpc' = "idle"
    /\ lastSync' = <<>>
    /\ cinv' = StillRunning
    /\ UNCHANGED <<callbacks, created, queues, cpc, cframe, nEvents>>

\* _async_worker: callback_type, data = self._async_queue.get(timeout=1.0).
\* self._async_queue is read anew in every iteration: None raises
\* AttributeError, which only `except queue.Empty` would catch; an empty queue
\* makes the worker wait (no step); (None, None) ends the loop; anything else
\* starts self.invoke(callback_type, data).
ConsumerGet(t) ==
    /\ UNCHANGED nonCbVars
    /\ cpc[t] = "get"
    /\ IF asyncQueue = 0
       THEN /\ cpc' = [cpc EXCEPT ![t] = "crashed"]
            /\ cinv' = StillRunning
            /\ UNCHANGED <<queues, cframe>>
       ELSE /\ queues[asyncQueue] # <<>>
            /\ LET item == Head(queues[asyncQueue]) IN
                 /\ queues' = [queues EXCEPT ![asyncQueue] = Tail(@)]
                 /\ IF item = Sentinel
                    THEN /\ cpc' = [cpc EXCEPT ![t] = "exited"]
                         /\ cinv' = StillRunning
                         /\ UNCHANGED cframe
                    ELSE /\ cpc' = [cpc EXCEPT ![t] = "dispatch"]
                         /\ cframe' = [cframe EXCEPT ![t] = NewFrame(item.kind)]
                         /\ cinv' = [StillRunning EXCEPT ![t] =
                               << NewInvoke("async", item.kind,
                                            Payload(item.data, "none")) >>]
    /\ lastSync' = <<>>
    /\ UNCHANGED <<callbacks, created, mpc, asyncQueue, asyncThread, nEvents>>

\* One step of a worker's invoke loop: the next callback is invoked, or the
\* loop is over and the worker goes back to the queue.
ConsumerStep(t) ==
    /\ UNCHANGED nonCbVars
    /\ cpc[t] = "dispatch"
    /\ LET fr == cframe[t] IN
       IF fr.idx <= Len(fr.lst)
       THEN \E raised \in BOOLEAN :
              /\ cinv' = [StillRunning EXCEPT
                    ![t][1].calls = Append(@, fr.lst[fr.idx].id),
                    ![t][1].firstRaise = IF raised /\ @ = 0 THEN fr.idx ELSE @]
              /\ cframe' = [cframe EXCEPT ![t].idx =
                               HandlerReturn(fr.idx, Len(fr.lst), raised)]
              /\ UNCHANGED cpc
       ELSE /\ cinv' = [StillRunning EXCEPT
                    ![t][1].done = TRUE,
                    ![t][1].completeRegs = RegIds(callbacks["on_complete"])]
            /\ cframe' = [cframe EXCEPT ![t] = NoFrame]
            /\ cpc' = [cpc EXCEPT ![t] = "get"]
    /\ lastSync' = <<>>
    /\ UNCHANGED <<callbacks, created, mpc, asyncQueue, asyncThread, queues,
                   nEvents>>

\* The steps of a manager whose background consumer, once started, is left
\* running: stop_async_processing (StopBegin, StopEnd) is not among them.
CallbackNext ==
    \/ \E k \in Kinds, h \in Handlers : Register(k, h)
    \/ \E k \in Kinds, n \in 1..MaxRegs : Unregister(k, n)
    \/ \E k \in Kinds : Invoke(k)
    \/ invoke_success
    \/ invoke_error
    \/ StartAsync
    \/ \E k \in Kinds : QueueAsync(k)
    \/ \E t \in DOMAIN cpc : ConsumerGet(t)
    \/ \E t \in DOMAIN cpc : ConsumerStep(t)


(***************************************************************************)
(* ThumbnailRenderer.find_best_graph                                        *)
(***************************************************************************)
MaxGraphs == 2
MaxOutputs == 2

\* priority_outputs
priority_outputs ==
    << "basecolor", "baseColor", "diffuse", "albedo",
       "Base_Color", "base_color", "Diffuse", "Albedo" >>

\* str.lower() on the strings of the model.
Lower_Identity(str) == str

Lower(str) ==
    CASE str \in {"baseColor", "BaseColor"} -> "basecolor"
      [] str = "Base_Color" -> "base_color"
      [] str = "Diffuse" -> "diffuse"
      [] str = "Albedo" -> "albedo"
      [] str = "Height" -> "height"
      [] OTHER -> str

\* The GraphOutput objects the graphs of the model are built from: one whose
\* name is a priority term in another case, one whose usage is a later
\* priority term, one that matches no priority term.
OutputPool ==
    { [name |-> "BaseColor", usage |-> "color"],
      [name |-> "Height", usage |-> "diffuse"],
      [name |-> "mask", usage |-> "opacity"] }

RECURSIVE SeqsUpTo(_, _)
SeqsUpTo(S, n) ==
    IF n = 0 THEN {<<>>}
    ELSE LET shorter == SeqsUpTo(S, n - 1) IN
         shorter \cup {Append(q, x) : q \in shorter, x \in S}

\* Lists of GraphInfo: graph i is named "g<i>".
GraphName(i) == CASE i = 1 -> "g1" [] i = 2 -> "g2" [] i = 3 -> "g3" [] OTHER -> "g4"

GraphLists ==
    { [i \in 1..Len(outs) |-> [name |-> GraphName(i), outputs |-> outs[i]]] :
        outs \in SeqsUpTo(SeqsUpTo(OutputPool, MaxOutputs), MaxGraphs) }

NoneNone == << "None", "None" >>
NotCalled == << "not called", "not called" >>

\* output.name.lower() == priority.lower() or
\* output.usage.lower() == priority.lower()
Matches(output, priority) ==
    \/ Lower(output.name) = Lower(priority)
    \/ Lower(output.usage) = Lower(priority)

\* for output in graph.outputs: the position of the first match from i on, 0
\* when there is none.
RECURSIVE ScanOutputs(_, _, _)
ScanOutputs(outputs, priority, i) ==
    IF i > Len(outputs) THEN 0
    ELSE IF Matches(outputs[i], priority) THEN i
    ELSE ScanOutputs(outputs, priority, i + 1)

\* for priority in priority_outputs: the position in outputs of the first
\* match of the first priority term, from term j on, that has one.
RECURSIVE ScanPriorities(_, _)
ScanPriorities(outputs, j) ==
    IF j > Len(priority_outputs) THEN 0
    ELSE LET i == ScanOutputs(outputs, priority_outputs[j], 1) IN
         IF i # 0 THEN i ELSE ScanPriorities(outputs, j + 1)

\* for graph in graphs (the first loop): graphs without outputs are skipped,
\* the first graph with a priority match returns.
RECURSIVE ScanGraphs(_, _)
ScanGraphs(graphs, k) ==
    IF k > Len(graphs) THEN NoneNone
    ELSE IF graphs[k].outputs = <<>> THEN ScanGraphs(graphs, k + 1)
    ELSE LET i == ScanPriorities(graphs[k].outputs, 1) IN
         IF i # 0 THEN << graphs[k].name, graphs[k].outputs[i].name >>
         ELSE ScanGraphs(graphs, k + 1)

\* for graph in graphs (the fallback loop), then return None, None.
Fallback_LastGraph(graphs, k) ==
    IF \E g \in DOMAIN graphs : graphs[g].outputs # <<>>
    THEN LET g == CHOOSE g \in DOMAIN graphs :
                    /\ graphs[g].outputs # <<>>
                    /\ \A h \in DOMAIN graphs : graphs[h].outputs # <<>> => h <= g
         IN << graphs[g].name, graphs[g].outputs[1].name >>
    ELSE NoneNone

RECURSIVE Fallback(_, _)
Fallback(graphs, k) ==
    IF k > Len(graphs) THEN NoneNone
    ELSE IF graphs[k].outputs # <<>>
    THEN << graphs[k].name, graphs[k].outputs[1].name >>
    ELSE Fallback(graphs, k + 1)

BestGraph(graphs) ==
    LET found == ScanGraphs(graphs, 1) IN
    IF found # NoneNone THEN found ELSE Fallback(graphs, 1)

\* find_best_graph(graphs)
find_best_graph ==
    /\ UNCHANGED nonFnVars
    /\ selResult = NotCalled
    /\ selResult' = BestGraph(selGraphs)
    /\ UNCHANGED <<selGraphs, info_output, parsedGraphs, flatResolution, log2_res,
                   ballGraphName, ballGraphs, ballTarget>>


(***************************************************************************)
(* ThumbnailRenderer._parse_graph_info                                      *)
(***************************************************************************)
MaxLines == 3

\* The lines of the reports of the model, each as line.strip().split(): two
\* declarations, an INPUT line with and without a name, an OUTPUT line with
\* and without a usage, a line of another kind and a blank line.
LinePool ==
    { << "GRAPH-URL", "pkg://wood" >>,
      << "GRAPH-URL", "metal" >>,
      << "INPUT", "$outputsize", "INTEGER2" >>,
      << "INPUT" >>,
      << "OUTPUT", "basecolor", "baseColor" >>,
      << "OUTPUT", "broken" >>,
      << "note" >>,
      << >> }

Reports == SeqsUpTo(LinePool, MaxLines)

NotParsed == << [url |-> "not parsed", name |-> "", inputs |-> <<>>, outputs |-> <<>>] >>

\* line.startswith(keyword), for lines whose first word either is the
\* keyword or does not begin with it.
StartsWith(line, keyword) == line # <<>> /\ line[1] = keyword

\* url = line.replace('GRAPH-URL', '').strip()
UrlOf(line) == IF Len(line) >= 2 THEN line[2] ELSE ""

\* url.replace('pkg://', '') if url.startswith('pkg://') else url
NameOf(url) == IF url = "pkg://wood" THEN "wood" ELSE url

\* GraphInfo(url=url, name=name)
GraphInfo(url) == [url |-> url, name |-> NameOf(url), inputs |-> <<>>, outputs |-> <<>>]

\* if len(parts) >= 2: current_graph.inputs.append(parts[1])
AddInput(graph, parts) ==
    IF Len(parts) >= 2
    THEN [graph EXCEPT !.inputs = Append(@, parts[2])]
    ELSE graph

\* if len(parts) >= 3: current_graph.outputs.append(GraphOutput(parts[1], parts[2]))
AddOutput_NoUsage(graph, parts) ==
    IF Len(parts) >= 3
    THEN [graph EXCEPT !.outputs = Append(@, [name |-> parts[2], usage |-> parts[3]])]
    ELSE IF Len(parts) = 2
    THEN [graph EXCEPT !.outputs = Append(@, [name |-> parts[2], usage |-> ""])]
    ELSE graph

AddOutput(graph, parts) ==
    IF Len(parts) >= 3
    THEN [graph EXCEPT !.outputs = Append(@, [name |-> parts[2], usage |-> parts[3]])]
    ELSE graph

\* One iteration of `for line in info_output.splitlines()`. st.graphs is the
\* list graphs; st.current is << >> for current_graph None, else << the graph >>.
ParseLine(st, line) ==
    IF StartsWith(line, "GRAPH-URL")
    THEN [graphs |-> IF st.current # <<>> THEN Append(st.graphs, st.current[1])
                     ELSE st.graphs,
          current |-> << GraphInfo(UrlOf(line)) >>]
    ELSE IF st.current # <<>>
    THEN IF StartsWith(line, "INPUT")
         THEN [st EXCEPT !.current = << AddInput(st.current[1], line) >>]
         ELSE IF StartsWith(line, "OUTPUT")
         THEN [st EXCEPT !.current = << AddOutput(st.current[1], line) >>]
         ELSE st
    ELSE st

RECURSIVE ParseLines(_, _, _)
ParseLines(st, lines, i) ==
    IF i > Len(lines) THEN st ELSE ParseLines(ParseLine(st, lines[i]), lines, i + 1)

\* if current_graph: graphs.append(current_graph); return graphs
ParseEnd_DropsLast(st) == st.graphs

ParseEnd(st) ==
    IF st.current # <<>> THEN Append(st.graphs, st.current[1]) ELSE st.graphs

ParseGraphInfo(lines) ==
    ParseEnd(ParseLines([graphs |-> <<>>, current |-> <<>>], lines, 1))

\* _parse_graph_info(info_output)
parse_graph_info ==
    /\ UNCHANGED nonFnVars
    /\ parsedGraphs = NotParsed
    /\ parsedGraphs' = ParseGraphInfo(info_output)
    /\ UNCHANGED <<selGraphs, selResult, info_output, flatResolution, log2_res,
                   ballGraphName, ballGraphs, ballTarget>>

(***************************************************************************)
(* The size exponent of the flat render                                     *)
(***************************************************************************)
MaxResolution == 8200
MaxNegative == 2

\* The bounds of max(5, min(13, ...))
MinExponent == 5
MaxExponent == 13

Resolutions == (0 - MaxNegative)..MaxResolution

NotComputed == [raised |-> FALSE, value |-> 0]

\* int(math.log2(n)) for n >= 1
RECURSIVE Log2Floor(_)
Log2Floor(n) == IF n < 2 THEN 0 ELSE 1 + Log2Floor(n \div 2)

Clamp(lo, hi, x) == IF x < lo THEN lo ELSE IF x > hi THEN hi ELSE x

\* log2_res = max(5, min(13, int(math.log2(resolution)))): math.log2 raises
\* ValueError for resolution <= 0.
SizeExponent(resolution) ==
    IF resolution <= 0
    THEN [raised |-> TRUE, value |-> 0]
    ELSE [raised |-> FALSE,
          value |-> Clamp(MinExponent, MaxExponent, Log2Floor(resolution))]

compute_log2_res ==
    /\ UNCHANGED nonFnVars
    /\ log2_res = NotComputed
    /\ log2_res' = SizeExponent(flatResolution)
    /\ UNCHANGED <<selGraphs, selResult, info_output, parsedGraphs, flatResolution,
                   ballGraphName, ballGraphs, ballTarget>>

(***************************************************************************)
(* _render_material_ball: the choice of the target graph                    *)
(***************************************************************************)

\* The graph_name argument: "" stands for None and for '' (both are falsy).
GraphNameArgs == {"", "wood", "metal", "paint", "rust"}

\* The names of the graphs of a package.
PackageGraphNames == {"wood", "metal", "paint"}

NotChosen == [index |-> 0, graph_name |-> "not chosen"]

\* for g in graphs: if g.name == graph_name: target_graph = g; break
\* (0: the loop found no graph)
RECURSIVE FirstNamed(_, _, _)
FirstNamed(graphs, graph_name, i) ==
    IF i > Len(graphs) THEN 0
    ELSE IF graphs[i] = graph_name THEN i
    ELSE FirstNamed(graphs, graph_name, i + 1)

\* The target graph (its position in graphs) and the value of graph_name
\* after the choice, which is what the per-channel renders pass as
\* --input-graph and what the RenderResult reports. With no graph the
\* function has returned before, reporting graph_name=''.
TargetGraph_KeepsRequestedName(graph_name, graphs) ==
    LET found == IF graph_name # "" THEN FirstNamed(graphs, graph_name, 1)
                 ELSE 0
    IN  IF graphs = <<>> THEN [index |-> 0, graph_name |-> ""]
        ELSE IF found # 0 THEN [index |-> found, graph_name |-> graph_name]
        ELSE [index |-> 1, graph_name |-> graph_name]

TargetGraph(graph_name, graphs) ==
    LET found == IF graph_name # "" THEN FirstNamed(graphs, graph_name, 1)
                 ELSE 0
    IN  IF graphs = <<>> THEN [index |-> 0, graph_name |-> ""]
        ELSE IF found # 0 THEN [index |-> found, graph_name |-> graph_name]
        ELSE [index |-> 1, graph_name |-> graphs[1]]

choose_target_graph ==
    /\ UNCHANGED nonFnVars
    /\ ballTarget = NotChosen
    /\ ballTarget' = TargetGraph(ballGraphName, ballGraphs)
    /\ UNCHANGED <<selGraphs, selResult, info_output, parsedGraphs,
                   flatResolution, log2_res, ballGraphName, ballGraphs>>

(***************************************************************************)
(* BatchProcessor.process_directory over the files of a directory           *)
(***************************************************************************)

\* A file or directory name is the pair <<stem, suffix>>; NameOrder lists the
\* names of the model in ascending order of their strings ("notes.txt" <
\* "sub" < "x.sbs" < "x.sbsar" < "y.sbs").
NameOrder ==
    << <<"notes", ".txt">>, <<"sub", "">>, <<"x", ".sbs">>,
       <<"x", ".sbsar">>, <<"y", ".sbs">> >>

NameRank(name) == CHOOSE i \in 1..Len(NameOrder) : NameOrder[i] = name

\* A path below `directory` is the sequence of its components.
PathPool ==
    { << <<"notes", ".txt">> >>, << <<"x", ".sbs">> >>,
      << <<"x", ".sbsar">> >>, << <<"y", ".sbs">> >>,
      << <<"sub", "">>, <<"x", ".sbs">> >> }

Directories ==
    [entries : {e \in SUBSET PathPool : Cardinality(e) <= MaxEntries},
     exists : BOOLEAN, recursive : BOOLEAN, callback : BOOLEAN]

NoDirectory ==
    [entries |-> {}, exists |-> FALSE, recursive |-> FALSE,
     callback |-> FALSE]

\* Path.name, Path.stem, Path.suffix
FileName(path) == path[Len(path)]
Stem(path) == FileName(path)[1]
Suffix(path) == FileName(path)[2]

\* Path.__lt__: the component lists are compared, component by component.
RECURSIVE PathLess(_, _)
PathLess(p, q) ==
    IF p = <<>> THEN q # <<>>
    ELSE IF q = <<>> THEN FALSE
    ELSE IF Head(p) = Head(q) THEN PathLess(Tail(p), Tail(q))
    ELSE NameRank(Head(p)) < NameRank(Head(q))

\* path.glob('*' + ext) / path.rglob('*' + ext) as a set; the order in which
\* the directory is read is not fixed.
Glob(d, ext) ==
    {p \in d.entries : Suffix(p) = ext /\ (d.recursive \/ Len(p) = 1)}

Orders(S) ==
    {f \in [1..Cardinality(S) -> S] : \A i, j \in DOMAIN f : f[i] = f[j] => i = j}

\* sorted(files)
RECURSIVE Insert(_, _)
Insert(lst, p) ==
    IF lst = <<>> THEN <<p>>
    ELSE IF PathLess(p, Head(lst)) THEN <<p>> \o lst
    ELSE <<Head(lst)>> \o Insert(Tail(lst), p)

RECURSIVE Sorted(_)
Sorted(files) ==
    IF files = <<>> THEN <<>>
    ELSE Insert(Sorted(Tail(files)), Head(files))

\* process_file: output_path = Path(output_dir) / f"{filepath.stem}_preview.
\* {output_format}", a name directly in output_dir.
OutputPath(path) == <<Stem(path), "_preview", ".png">>

\* files = self.find_files(directory, recursive): FileNotFoundError for a
\* missing directory, else the sorted list of the '*.sbs' and then the
\* '*.sbsar' matches; if not files: return BatchResult(total=0, ...).
ListFiles ==
    /\ UNCHANGED nonListVars
    /\ lpc = "start"
    /\ IF ~dcfg.exists
       THEN /\ lpc' = "raised"
            /\ UNCHANGED listing
       ELSE \E sbs \in Orders(Glob(dcfg, ".sbs")),
               sbsar \in Orders(Glob(dcfg, ".sbsar")) :
              /\ listing' = Sorted(sbs \o sbsar)
              /\ lpc' = IF listing' = <<>> THEN "returned" ELSE "progress"
    /\ UNCHANGED <<dcfg, lidx, progressCalls, processed, outputPaths>>

\* for i, filepath in enumerate(files): if progress_callback:
\*     progress_callback(i + 1, total, filepath.name)
ListProgress ==
    /\ UNCHANGED nonListVars
    /\ lpc = "progress"
    /\ progressCalls' =
          IF dcfg.callback
          THEN Append(progressCalls,
                      [current |-> lidx, total |-> Len(listing),
                       filename |-> FileName(listing[lidx])])
          ELSE progressCalls
    /\ lpc' = "process"
    /\ UNCHANGED <<dcfg, listing, lidx, processed, outputPaths>>

\* result = self.process_file(filepath=str(filepath), ...): render is called
\* with the file's output_path; an exception of render ends the call, else
\* the result is recorded and the loop goes on.
ListProcess ==
    /\ UNCHANGED nonListVars
    /\ lpc = "process"
    /\ processed' = Append(processed, listing[lidx])
    /\ outputPaths' = Append(outputPaths, OutputPath(listing[lidx]))
    /\ \E ro \in RenderOutcomes :
         IF ro = "raises"
         THEN lpc' = "raised" /\ UNCHANGED lidx
         ELSE /\ lidx' = lidx + 1
              /\ lpc' = IF lidx = Len(listing) THEN "returned" ELSE "progress"
    /\ UNCHANGED <<dcfg, listing, progressCalls>>

ListNext ==
    \/ ListFiles
    \/ ListProgress
    \/ ListProcess

(***************************************************************************)
(* Specifications                                                           *)
(***************************************************************************)
\* BatchProcessor.__init__ and the arguments of the batch call.
BatchInit ==
    /\ mode \in {"directory", "parallel"}
    /\ nfiles \in 0..MaxFiles
    /\ max_workers \in 1..MaxWorkersBound
    /\ bpc = "start"
    /\ submitted = 0
    /\ dirIdx = 1
    /\ ustate = [u \in 1..nfiles |-> "pending"]
    /\ outcome = [u \in 1..nfiles |-> "none"]
    /\ collected = {}
    /\ results = <<>>
    /\ errors = <<>>
    /\ success_count = 0
    /\ failed_count = 0
    /\ batchResult = NoResult
    /\ writers = {}
    \* no renderer call is modelled
    /\ rcfg = [sbsrender |-> FALSE, sbscooker |-> FALSE, ball |-> FALSE]
    /\ rpc = "idle" /\ loc = FreshLocals("none", NoInput)
    /\ tool = NoTool /\ fs = EmptyDisk /\ runs = 0
    \* no CallbackManager is modelled
    /\ callbacks = [k \in Kinds |-> <<>>] /\ created = [k \in Kinds |-> <<>>]
    /\ mpc = "idle"
    /\ asyncQueue = 0 /\ asyncThread = 0 /\ queues = <<>>
    /\ cpc = <<>> /\ cframe = <<>>
    /\ nEvents = 0 /\ lastSync = <<>> /\ cinv = <<>>
    \* no function of the renderer is called
    /\ selGraphs = <<>> /\ selResult = NotCalled
    /\ info_output = <<>> /\ parsedGraphs = NotParsed
    /\ flatResolution = 256 /\ log2_res = NotComputed
    /\ ballGraphName = "" /\ ballGraphs = <<>> /\ ballTarget = NotChosen
    \* no directory is processed
    /\ dcfg = NoDirectory /\ lpc = "start" /\ listing = <<>> /\ lidx = 1
    /\ progressCalls = <<>> /\ processed = <<>> /\ outputPaths = <<>>

SpecBatch == BatchInit /\ [][BatchNext]_vars

\* __init__: _find_tool and the lookup of material_thumbnail_render.sbsar.
RenderInit ==
    /\ rcfg \in [sbsrender : BOOLEAN, sbscooker : BOOLEAN, ball : BOOLEAN]
    /\ rpc = "idle"
    /\ loc = FreshLocals("none", NoInput)
    /\ tool = NoTool
    /\ fs = EmptyDisk
    /\ runs = 0
    \* no batch call is modelled
    /\ mode = "directory" /\ nfiles = 0 /\ max_workers = 1 /\ bpc = "start"
    /\ submitted = 0 /\ dirIdx = 1 /\ ustate = <<>> /\ outcome = <<>>
    /\ collected = {} /\ results = <<>> /\ errors = <<>>
    /\ success_count = 0 /\ failed_count = 0
    /\ batchResult = NoResult /\ writers = {}
    \* no CallbackManager is modelled
    /\ callbacks = [k \in Kinds |-> <<>>] /\ created = [k \in Kinds |-> <<>>]
    /\ mpc = "idle"
    /\ asyncQueue = 0 /\ asyncThread = 0 /\ queues = <<>>
    /\ cpc = <<>> /\ cframe = <<>>
    /\ nEvents = 0 /\ lastSync = <<>> /\ cinv = <<>>
    \* no function of the renderer is called
    /\ selGraphs = <<>> /\ selResult = NotCalled
    /\ info_output = <<>> /\ parsedGraphs = NotParsed
    /\ flatResolution = 256 /\ log2_res = NotComputed
    /\ ballGraphName = "" /\ ballGraphs = <<>> /\ ballTarget = NotChosen
    \* no directory is processed
    /\ dcfg = NoDirectory /\ lpc = "start" /\ listing = <<>> /\ lidx = 1
    /\ progressCalls = <<>> /\ processed = <<>> /\ outputPaths = <<>>

SpecRender == RenderInit /\ [][RenderNext]_vars

\* CallbackManager.__init__, with the disk and the batch untouched.
CallbackInit ==
    /\ callbacks = [k \in Kinds |-> <<>>] /\ created = [k \in Kinds |-> <<>>]
    /\ mpc = "idle"
    /\ asyncQueue = 0 /\ asyncThread = 0 /\ queues = <<>>
    /\ cpc = <<>> /\ cframe = <<>>
    /\ nEvents = 0 /\ lastSync = <<>> /\ cinv = <<>>
    \* no batch call is modelled
    /\ mode = "directory" /\ nfiles = 0 /\ max_workers = 1 /\ bpc = "start"
    /\ submitted = 0 /\ dirIdx = 1 /\ ustate = <<>> /\ outcome = <<>>
    /\ collected = {} /\ results = <<>> /\ errors = <<>>
    /\ success_count = 0 /\ failed_count = 0
    /\ batchResult = NoResult /\ writers = {}
    \* no renderer call is modelled
    /\ rcfg = [sbsrender |-> FALSE, sbscooker |-> FALSE, ball |-> FALSE]
    /\ rpc = "idle" /\ loc = FreshLocals("none", NoInput)
    /\ tool = NoTool /\ fs = EmptyDisk /\ runs = 0
    \* no function of the renderer is called
    /\ selGraphs = <<>> /\ selResult = NotCalled
    /\ info_output = <<>> /\ parsedGraphs = NotParsed
    /\ flatResolution = 256 /\ log2_res = NotComputed
    /\ ballGraphName = "" /\ ballGraphs = <<>> /\ ballTarget = NotChosen
    \* no directory is processed
    /\ dcfg = NoDirectory /\ lpc = "start" /\ listing = <<>> /\ lidx = 1
    /\ progressCalls = <<>> /\ processed = <<>> /\ outputPaths = <<>>

SpecCallback == CallbackInit /\ [][CallbackNext]_vars

\* The steps of a manager whose background consumer is started, stopped and
\* started again while events are queued.
AsyncNext ==
    \/ \E k \in Kinds, h \in Handlers : Register(k, h)
    \/ StartAsync
    \/ \E k \in Kinds : QueueAsync(k)
    \/ StopBegin
    \/ StopEnd
    \/ \E t \in DOMAIN cpc : ConsumerGet(t)
    \/ \E t \in DOMAIN cpc : ConsumerStep(t)

SpecAsync == CallbackInit /\ [][AsyncNext]_vars

\* find_best_graph is called once with a list of graphs.
SelectInit ==
    /\ selGraphs \in GraphLists
    /\ selResult = NotCalled
    /\ info_output = <<>> /\ parsedGraphs = NotParsed
    /\ flatResolution = 256 /\ log2_res = NotComputed
    \* no batch call is modelled
    /\ mode = "directory" /\ nfiles = 0 /\ max_workers = 1 /\ bpc = "start"
    /\ submitted = 0 /\ dirIdx = 1 /\ ustate = <<>> /\ outcome = <<>>
    /\ collected = {} /\ results = <<>> /\ errors = <<>>
    /\ success_count = 0 /\ failed_count = 0
    /\ batchResult = NoResult /\ writers = {}
    \* no renderer call is modelled
    /\ rcfg = [sbsrender |-> FALSE, sbscooker |-> FALSE, ball |-> FALSE]
    /\ rpc = "idle" /\ loc = FreshLocals("none", NoInput)
    /\ tool = NoTool /\ fs = EmptyDisk /\ runs = 0
    \* no CallbackManager is modelled
    /\ callbacks = [k \in Kinds |-> <<>>] /\ created = [k \in Kinds |-> <<>>]
    /\ mpc = "idle"
    /\ asyncQueue = 0 /\ asyncThread = 0 /\ queues = <<>>
    /\ cpc = <<>> /\ cframe = <<>>
    /\ nEvents = 0 /\ lastSync = <<>> /\ cinv = <<>>
    /\ ballGraphName = "" /\ ballGraphs = <<>> /\ ballTarget = NotChosen
    \* no directory is processed
    /\ dcfg = NoDirectory /\ lpc = "start" /\ listing = <<>> /\ lidx = 1
    /\ progressCalls = <<>> /\ processed = <<>> /\ outputPaths = <<>>

SelectNext == find_best_graph

SpecSelect == SelectInit /\ [][SelectNext]_vars

\* _parse_graph_info is called once with a report.
ParseInit ==
    /\ info_output \in Reports
    /\ parsedGraphs = NotParsed
    /\ selGraphs = <<>> /\ selResult = NotCalled
    /\ flatResolution = 256 /\ log2_res = NotComputed
    \* no batch call is modelled
    /\ mode = "directory" /\ nfiles = 0 /\ max_workers = 1 /\ bpc = "start"
    /\ submitted = 0 /\ dirIdx = 1 /\ ustate = <<>> /\ outcome = <<>>
    /\ collected = {} /\ results = <<>> /\ errors = <<>>
    /\ success_count = 0 /\ failed_count = 0
    /\ batchResult = NoResult /\ writers = {}
    \* no renderer call is modelled
    /\ rcfg = [sbsrender |-> FALSE, sbscooker |-> FALSE, ball |-> FALSE]
    /\ rpc = "idle" /\ loc = FreshLocals("none", NoInput)
    /\ tool = NoTool /\ fs = EmptyDisk /\ runs = 0
    \* no CallbackManager is modelled
    /\ callbacks = [k \in Kinds |-> <<>>] /\ created = [k \in Kinds |-> <<>>]
    /\ mpc = "idle"
    /\ asyncQueue = 0 /\ asyncThread = 0 /\ queues = <<>>
    /\ cpc = <<>> /\ cframe = <<>>
    /\ nEvents = 0 /\ lastSync = <<>> /\ cinv = <<>>
    /\ ballGraphName = "" /\ ballGraphs = <<>> /\ ballTarget = NotChosen
    \* no directory is processed
    /\ dcfg = NoDirectory /\ lpc = "start" /\ listing = <<>> /\ lidx = 1
    /\ progressCalls = <<>> /\ processed = <<>> /\ outputPaths = <<>>

ParseNext == parse_graph_info

SpecParse == ParseInit /\ [][ParseNext]_vars

\* The flat render computes its size exponent once for a resolution.
ExponentInit ==
    /\ flatResolution \in Resolutions
    /\ log2_res = NotComputed
    /\ selGraphs = <<>> /\ selResult = NotCalled
    /\ info_output = <<>> /\ parsedGraphs = NotParsed
    \* no batch call is modelled
    /\ mode = "directory" /\ nfiles = 0 /\ max_workers = 1 /\ bpc = "start"
    /\ submitted = 0 /\ dirIdx = 1 /\ ustate = <<>> /\ outcome = <<>>
    /\ collected = {} /\ results = <<>> /\ errors = <<>>
    /\ success_count = 0 /\ failed_count = 0
    /\ batchResult = NoResult /\ writers = {}
    \* no renderer call is modelled
    /\ rcfg = [sbsrender |-> FALSE, sbscooker |-> FALSE, ball |-> FALSE]
    /\ rpc = "idle" /\ loc = FreshLocals("none", NoInput)
    /\ tool = NoTool /\ fs = EmptyDisk /\ runs = 0
    \* no CallbackManager is modelled
    /\ callbacks = [k \in Kinds |-> <<>>] /\ created = [k \in Kinds |-> <<>>]
    /\ mpc = "idle"
    /\ asyncQueue = 0 /\ asyncThread = 0 /\ queues = <<>>
    /\ cpc = <<>> /\ cframe = <<>>
    /\ nEvents = 0 /\ lastSync = <<>> /\ cinv = <<>>
    /\ ballGraphName = "" /\ ballGraphs = <<>> /\ ballTarget = NotChosen
    \* no directory is processed
    /\ dcfg = NoDirectory /\ lpc = "start" /\ listing = <<>> /\ lidx = 1
    /\ progressCalls = <<>> /\ processed = <<>> /\ outputPaths = <<>>

ExponentNext == compute_log2_res

SpecExponent == ExponentInit /\ [][ExponentNext]_vars

\* _render_material_ball is entered with every graph_name and every list
\* of parsed graphs of the model.
TargetInit ==
    /\ ballGraphName \in GraphNameArgs
    /\ ballGraphs \in SeqsUpTo(PackageGraphNames, MaxGraphs)
    /\ ballTarget = NotChosen
    /\ flatResolution = 256 /\ log2_res = NotComputed
    /\ selGraphs = <<>> /\ selResult = NotCalled
    /\ info_output = <<>> /\ parsedGraphs = NotParsed
    \* no batch call is modelled
    /\ mode = "directory" /\ nfiles = 0 /\ max_workers = 1 /\ bpc = "start"
    /\ submitted = 0 /\ dirIdx = 1 /\ ustate = <<>> /\ outcome = <<>>
    /\ collected = {} /\ results = <<>> /\ errors = <<>>
    /\ success_count = 0 /\ failed_count = 0
    /\ batchResult = NoResult /\ writers = {}
    \* no renderer call is modelled
    /\ rcfg = [sbsrender |-> FALSE, sbscooker |-> FALSE, ball |-> FALSE]
    /\ rpc = "idle" /\ loc = FreshLocals("none", NoInput)
    /\ tool = NoTool /\ fs = EmptyDisk /\ runs = 0
    \* no CallbackManager is modelled
    /\ callbacks = [k \in Kinds |-> <<>>] /\ created = [k \in Kinds |-> <<>>]
    /\ mpc = "idle"
    /\ asyncQueue = 0 /\ asyncThread = 0 /\ queues = <<>>
    /\ cpc = <<>> /\ cframe = <<>>
    /\ nEvents = 0 /\ lastSync = <<>> /\ cinv = <<>>
    \* no directory is processed
    /\ dcfg = NoDirectory /\ lpc = "start" /\ listing = <<>> /\ lidx = 1
    /\ progressCalls = <<>> /\ processed = <<>> /\ outputPaths = <<>>

TargetNext == choose_target_graph

SpecTarget == TargetInit /\ [][TargetNext]_vars

\* process_directory is called on every directory of the model.
ListInit ==
    /\ dcfg \in Directories
    /\ lpc = "start" /\ listing = <<>> /\ lidx = 1
    /\ progressCalls = <<>> /\ processed = <<>> /\ outputPaths = <<>>
    /\ flatResolution = 256 /\ log2_res = NotComputed
    /\ selGraphs = <<>> /\ selResult = NotCalled
    /\ info_output = <<>> /\ parsedGraphs = NotParsed
    \* no batch call is modelled
    /\ mode = "directory" /\ nfiles = 0 /\ max_workers = 1 /\ bpc = "start"
    /\ submitted = 0 /\ dirIdx = 1 /\ ustate = <<>> /\ outcome = <<>>
    /\ collected = {} /\ results = <<>> /\ errors = <<>>
    /\ success_count = 0 /\ failed_count = 0
    /\ batchResult = NoResult /\ writers = {}
    \* no renderer call is modelled
    /\ rcfg = [sbsrender |-> FALSE, sbscooker |-> FALSE, ball |-> FALSE]
    /\ rpc = "idle" /\ loc = FreshLocals("none", NoInput)
    /\ tool = NoTool /\ fs = EmptyDisk /\ runs = 0
    \* no CallbackManager is modelled
    /\ callbacks = [k \in Kinds |-> <<>>] /\ created = [k \in Kinds |-> <<>>]
    /\ mpc = "idle"
    /\ asyncQueue = 0 /\ asyncThread = 0 /\ queues = <<>>
    /\ cpc = <<>> /\ cframe = <<>>
    /\ nEvents = 0 /\ lastSync = <<>> /\ cinv = <<>>
    /\ ballGraphName = "" /\ ballGraphs = <<>> /\ ballTarget = NotChosen

SpecListing == ListInit /\ [][ListNext]_vars

(***************************************************************************)
(* Claims about BatchProcessor, checked under SpecBatch.                    *)
(***************************************************************************)
Failed == {u \in Files : ~IsSuccess(outcome[u])}
Occurrences(seq, u) == Cardinality({i \in 1..Len(seq) : seq[i] = u})

\* C1: in process_directory and process_parallel, a file whose pipeline fails
\* (failure result or exception) is recorded as one entry of errors, every
\* other file is still processed, and the batch call does not raise.
C1_FailureRecordedBatchContinues ==
    /\ bpc # "raised"
    /\ bpc = "returned" =>
         \A u \in Files :
            /\ ustate[u] = "finished"
            /\ u \in Failed => Occurrences(batchResult.errors, u) = 1

\* C2: the returned BatchResult of a batch over N files of which M fail has
\* total = N, success = N - M, failed = M, len(results) = success,
\* len(errors) = failed, and every file is counted exactly once.
C2_CountsAddUp ==
    bpc = "returned" =>
       LET M == Cardinality(Failed) IN
         /\ batchResult.total = nfiles
         /\ batchResult.success = nfiles - M
         /\ batchResult.failed = M
         /\ Len(batchResult.results) = batchResult.success
         /\ Len(batchResult.errors) = batchResult.failed
         /\ batchResult.total = batchResult.success + batchResult.failed
         /\ \A u \in Files :
              Occurrences(batchResult.results, u)
                + Occurrences(batchResult.errors, u) = 1

\* A batch of at least three files has returned; the first file failed, the
\* second succeeded and the last failed.
C2_Witness ==
    /\ bpc = "returned"
    /\ nfiles >= 3
    /\ 1 \in Failed /\ 2 \notin Failed /\ nfiles \in Failed
    /\ batchResult.failed >= 2

\* C6: process_parallel returns its BatchResult only after every submitted
\* unit has finished and has been recorded.
C6_ReturnAfterAllUnits ==
    (mode = "parallel" /\ bpc = "returned") =>
       \A u \in Files :
          /\ ustate[u] = "finished"
          /\ u \in collected
          /\ Occurrences(batchResult.results, u)
               + Occurrences(batchResult.errors, u) = 1

\* A parallel batch of more files than workers has returned.
C6_Witness ==
    /\ mode = "parallel" /\ bpc = "returned"
    /\ nfiles > max_workers
    /\ batchResult.total = nfiles

C8_OnlyCollectorMutates == mode = "parallel" => writers \subseteq {MainThread}

\* Both lists have been appended to while a worker is still running.
C8_Witness ==
    /\ mode = "parallel"
    /\ Len(results) > 0 /\ Len(errors) > 0
    /\ Running # {}
    /\ writers = {MainThread}

(***************************************************************************)
(* Claims about ThumbnailRenderer, checked under SpecRender.                *)
(***************************************************************************)
CallEnded == rpc \in {"returned", "raised"}

\* C3: every temporary directory created to compile a source file is deleted
\* before render / get_available_outputs returns control to its caller, on
\* every exit path, so no call leaves a compile directory behind.
C3_NoCompileDirLeft == CallEnded => (~fs.cookDir /\ fs.leftCook = 0)

\* C4: the scratch directory of _render_material_ball and every channel file
\* in it no longer exist when the call returns, on every exit path (success,
\* failure result, exception after the directory was created).
C4_ScratchDirDeleted ==
    rpc \in {"finally", "returned", "raised"} =>
       (~fs.mapsDir /\ fs.mapFiles = {} /\ fs.leftMaps = 0)

\* The composite render wrote channel files into its scratch directory and
\* then ended with an exception.
C4_Witness ==
    /\ rpc = "raised"
    /\ loc.op = "render" /\ loc.inp.useBall
    /\ loc.rendered_maps # {}
    /\ ~fs.mapsDir

\* C5: every renderer invocation made by render (flat render, per-channel
\* render, the composite's second pass) is bounded by a fixed timeout, so a
\* tool that never exits cannot keep render from returning.
C5_RenderCallsBounded ==
    tool.name \in RenderSites =>
       (tool.timeout # NoTimeout /\ ENABLED ToolTimeout(tool.name))

\* ---------------------------------------------------------------------------
\* Claims about the callback registry
\* ---------------------------------------------------------------------------

SuccessOrError == {"on_success", "on_error"}

StatusOf(kind) == IF kind = "on_success" THEN "success" ELSE "error"

IsPrefix(p, q) == Len(p) <= Len(q) /\ \A i \in 1..Len(p) : p[i] = q[i]

NoDuplicates(q) == \A i, j \in 1..Len(q) : q[i] = q[j] => i = j

\* The invoke loops of the dispatches that are over: the calling thread's
\* latest call, and the latest queue item of every worker that is back from
\* its invoke.
FinishedDispatches ==
    {lastSync} \cup {cinv[t] : t \in {u \in DOMAIN cinv : cpc[u] # "dispatch"}}

\* The dispatch d handed a success or an error event to its handlers through
\* invoke_success, invoke_error or the background consumer.
IsEventDispatch(d) ==
    /\ d # <<>>
    /\ d[1].op \in {"invoke_success", "invoke_error", "async"}
    /\ d[1].kind \in SuccessOrError

\* After the success/error loop of d, one on_complete loop called every
\* complete handler that was registered, once, with the same data plus the
\* status.
CompleteFollowed(d) ==
    /\ Len(d) = 2
    /\ d[1].done /\ d[2].done
    /\ d[2].kind = "on_complete"
    /\ d[2].payload = Payload(d[1].payload.data, StatusOf(d[1].kind))
    /\ IsPrefix(d[1].completeRegs, d[2].calls)
    /\ NoDuplicates(d[2].calls)

\* C9: every dispatch of a success or an error event, through invoke_success,
\* invoke_error or a queued event handled by the background consumer, is
\* followed by one call of every registered complete handler with the same
\* payload plus the status 'success' or 'error'.
C9_CompleteAfterEveryDispatch ==
    \A d \in FinishedDispatches :
       (IsEventDispatch(d) /\ d[1].completeRegs # <<>>) => CompleteFollowed(d)

\* C10: invoke(kind, data) calls every handler registered for the kind, once
\* each and in registration order, whether or not one of them raises, and the
\* invoke comes to its end; this holds for every event, also after an event
\* whose handler raised.
C10_InvokeCallsAllInOrder ==
    /\ \A d \in FinishedDispatches : \A i \in DOMAIN d :
         d[i].done =>
            /\ IsPrefix(d[i].startRegs, d[i].calls)
            /\ NoDuplicates(d[i].calls)
            /\ \A j \in DOMAIN d[i].calls : d[i].calls[j][1] = d[i].kind
    /\ \A i \in DOMAIN lastSync :
         /\ lastSync[i].done
         /\ lastSync[i].calls = RegIds(callbacks[lastSync[i].kind])
    /\ (lastSync # <<>> /\ lastSync[1].op # "invoke") => Len(lastSync) = 2

\* The invoke of the second event has called two handlers although the first
\* one raised.
C10_Witness ==
    \E d \in FinishedDispatches :
       /\ d # <<>> /\ d[1].done
       /\ d[1].payload.data = 2
       /\ d[1].firstRaise = 1 /\ Len(d[1].calls) = 2

\* ---------------------------------------------------------------------------
\* Claims about the background consumer
\* ---------------------------------------------------------------------------

\* The _async_worker threads that have not ended.
LiveWorkers == {t \in DOMAIN cpc : cpc[t] \in {"get", "dispatch"}}

\* The events (not the (None, None) item) waiting on queue q.
PendingEvents(q) == SelectSeq(queues[q], LAMBDA item : item # Sentinel)

\* C11: when stop_async_processing returns, the background consumer has ended
\* and no event queued before the stop is left undelivered on the queue.
C11_StopDrainsAndJoins ==
    [][StopEnd => /\ cpc[asyncThread] = "exited"
                  /\ PendingEvents(asyncQueue) = <<>>]_vars

\* The threads executing self._async_queue.get on the manager's current queue.
Draining == IF asyncQueue = 0 THEN {} ELSE {t \in DOMAIN cpc : cpc[t] = "get"}

\* C12: whatever the sequence of start_async_processing, queue_async and
\* stop_async_processing calls, at most one background consumer thread is
\* alive and at most one is taking items from the manager's queue.
C12_SingleConsumer ==
    /\ Cardinality(Draining) <= 1
    /\ Cardinality(LiveWorkers) <= 1

\* C13: queued events are dispatched in the order they were queued, each one
\* once, one at a time: at most one dispatch is running, the event being
\* dispatched was queued before every event still waiting, and no event is
\* left on a queue the manager has dropped.
C13_FifoOneAtATime ==
    /\ Cardinality({t \in DOMAIN cpc : cpc[t] = "dispatch"}) <= 1
    /\ \A t \in DOMAIN cpc : cpc[t] = "dispatch" =>
          \A q \in DOMAIN queues : \A i \in DOMAIN PendingEvents(q) :
             cinv[t][1].payload.data < PendingEvents(q)[i].data
    /\ \A q \in DOMAIN queues : \A i, j \in DOMAIN PendingEvents(q) :
          i < j => PendingEvents(q)[i].data < PendingEvents(q)[j].data
    /\ \A q \in DOMAIN queues : q # asyncQueue => PendingEvents(q) = <<>>

\* ---------------------------------------------------------------------------
\* Claims about unregister
\* ---------------------------------------------------------------------------

\* The list lst without the object cb, the other objects in their order.
WithoutObject(lst, cb) == SelectSeq(lst, LAMBDA c : c.id # cb.id)

\* C14: unregister(cb) removes the object cb and no other registration, and
\* keeps the order of the others, also when another registration has the
\* same kind, handler and name as cb.
C14_UnregisterByIdentity ==
    [][\A k \in Kinds, n \in 1..MaxRegs :
          Unregister(k, n) =>
             /\ callbacks'[k] = WithoutObject(callbacks[k], created[k][n])
             /\ \A j \in Kinds \ {k} : callbacks'[j] = callbacks[j]]_vars

\* ---------------------------------------------------------------------------
\* Claims about find_best_graph
\* ---------------------------------------------------------------------------

\* The position in priority_outputs of the first term that matches the output
\* on name or usage, whatever the case; 0 when no term matches.
PriorityRank(output) ==
    LET hits == {j \in DOMAIN priority_outputs :
                    \/ Lower(output.name) = Lower(priority_outputs[j])
                    \/ Lower(output.usage) = Lower(priority_outputs[j])}
    IN IF hits = {} THEN 0 ELSE CHOOSE j \in hits : \A h \in hits : j <= h

\* The positions (graph, output) of the outputs of selGraphs.
OutputPositions ==
    UNION {{<<g, i>> : i \in DOMAIN selGraphs[g].outputs} : g \in DOMAIN selGraphs}

OutputAt(pos) == selGraphs[pos[1]].outputs[pos[2]]

\* The ranks of the outputs the returned pair names.
ResultRanks ==
    {PriorityRank(OutputAt(pos)) :
        pos \in {q \in OutputPositions :
                    /\ selGraphs[q[1]].name = selResult[1]
                    /\ OutputAt(q).name = selResult[2]}}

GraphsWithOutputs == {g \in DOMAIN selGraphs : selGraphs[g].outputs # <<>>}

AnyPriorityMatch == \E pos \in OutputPositions : PriorityRank(OutputAt(pos)) > 0

\* C15: the pair returned is a match of the earliest priority term that
\* matches an output of any graph: no output of any graph matches a term that
\* comes before the term the returned output matches.
C15_PriorityOrderFirst ==
    selResult # NotCalled =>
       \A pos \in OutputPositions :
          PriorityRank(OutputAt(pos)) > 0 =>
             \E r \in ResultRanks : r > 0 /\ r <= PriorityRank(OutputAt(pos))

\* C16: find_best_graph falls back only when no priority term matches any
\* output: then it returns the first graph that has an output with its first
\* output, and (None, None) exactly when no graph has an output; an output
\* named BaseColor counts as a priority output.
C16_FallbackOnlyWithoutMatch ==
    selResult # NotCalled =>
       /\ (selResult = NoneNone) <=> (GraphsWithOutputs = {})
       /\ AnyPriorityMatch => \E r \in ResultRanks : r > 0
       /\ (~AnyPriorityMatch /\ GraphsWithOutputs # {}) =>
             LET g == CHOOSE g \in GraphsWithOutputs :
                         \A h \in GraphsWithOutputs : g <= h
             IN selResult = << selGraphs[g].name, selGraphs[g].outputs[1].name >>
       /\ (\E pos \in OutputPositions : OutputAt(pos).name = "BaseColor") =>
             selResult[2] \in {"BaseColor", "Height"}

\* The fallback has chosen among two graphs with outputs, none of them a
\* priority output.
C16_Witness ==
    /\ selResult # NotCalled
    /\ ~AnyPriorityMatch
    /\ Cardinality(GraphsWithOutputs) >= 2

\* ---------------------------------------------------------------------------
\* Claims about _parse_graph_info
\* ---------------------------------------------------------------------------

\* The positions of the declaration (GRAPH-URL) lines of the report, in order.
DeclPos ==
    SelectSeq([i \in 1..Len(info_output) |-> i],
              LAMBDA i : StartsWith(info_output[i], "GRAPH-URL"))

\* The lines after the k-th declaration line up to the next one (or the end).
Segment(k) ==
    SubSeq(info_output, DeclPos[k] + 1,
           IF k < Len(DeclPos) THEN DeclPos[k + 1] - 1 ELSE Len(info_output))

InputLines(lines) == SelectSeq(lines, LAMBDA l : StartsWith(l, "INPUT"))

NamedInputLines(lines) ==
    SelectSeq(lines, LAMBDA l : StartsWith(l, "INPUT") /\ Len(l) >= 2)

WellFormedOutputLines(lines) ==
    SelectSeq(lines, LAMBDA l : StartsWith(l, "OUTPUT") /\ Len(l) >= 3)

\* One graph per declaration line, in order, each with the well-formed
\* OUTPUT lines of its segment, in order.
GraphsAndOutputsFollowReport ==
    /\ Len(parsedGraphs) = Len(DeclPos)
    /\ \A k \in DOMAIN parsedGraphs :
          /\ parsedGraphs[k].url = UrlOf(info_output[DeclPos[k]])
          /\ parsedGraphs[k].outputs =
                [i \in DOMAIN WellFormedOutputLines(Segment(k)) |->
                    [name |-> WellFormedOutputLines(Segment(k))[i][2],
                     usage |-> WellFormedOutputLines(Segment(k))[i][3]]]

\* C17 as stated: one GraphInfo per declaration line, in order, and every
\* INPUT line and every well-formed OUTPUT line is attached to the graph of
\* the nearest preceding declaration line and to no other.
C17_EveryInputLineAttached ==
    parsedGraphs # NotParsed =>
       /\ GraphsAndOutputsFollowReport
       /\ \A k \in DOMAIN parsedGraphs :
             Len(parsedGraphs[k].inputs) = Len(InputLines(Segment(k)))

\* C17 amended: one GraphInfo per declaration line, in order; every INPUT
\* line that carries a name and every well-formed OUTPUT line is attached, in
\* order, to the graph of the nearest preceding declaration line and to no
\* other; an INPUT line without a name adds nothing.
C17_NamedInputLinesAttached ==
    parsedGraphs # NotParsed =>
       /\ GraphsAndOutputsFollowReport
       /\ \A k \in DOMAIN parsedGraphs :
             parsedGraphs[k].inputs =
                [i \in DOMAIN NamedInputLines(Segment(k)) |->
                    NamedInputLines(Segment(k))[i][2]]

\* A report with two declarations has been parsed, and a line is attached to
\* the second graph.
C17_Witness ==
    /\ parsedGraphs # NotParsed
    /\ Len(parsedGraphs) = 2
    /\ parsedGraphs[1].inputs = <<>> /\ parsedGraphs[1].outputs = <<>>
    /\ parsedGraphs[2].inputs # <<>> \/ parsedGraphs[2].outputs # <<>>

\* The lines that can change the result: declarations, INPUT lines and OUTPUT
\* lines with at least 3 tokens.
Significant(lines) ==
    SelectSeq(lines, LAMBDA l :
        \/ StartsWith(l, "GRAPH-URL")
        \/ StartsWith(l, "INPUT")
        \/ StartsWith(l, "OUTPUT") /\ Len(l) >= 3)

\* C18: _parse_graph_info returns a list for every report: the empty list for
\* the empty text; INPUT and OUTPUT lines before the first declaration are
\* ignored and create no graph; an OUTPUT line with fewer than 3 tokens adds
\* no output; lines of another kind change nothing.
C18_ParserNeverFails ==
    parsedGraphs # NotParsed =>
       /\ info_output = <<>> => parsedGraphs = <<>>
       /\ DeclPos = <<>> => parsedGraphs = <<>>
       /\ DeclPos # <<>> =>
             parsedGraphs =
                ParseGraphInfo(SubSeq(info_output, DeclPos[1], Len(info_output)))
       /\ parsedGraphs = ParseGraphInfo(Significant(info_output))
       /\ \A k \in DOMAIN parsedGraphs : \A i \in DOMAIN parsedGraphs[k].outputs :
             \E n \in DOMAIN info_output :
                info_output[n] = << "OUTPUT", parsedGraphs[k].outputs[i].name,
                                    parsedGraphs[k].outputs[i].usage >>

\* A report with an OUTPUT line before its only declaration and an OUTPUT
\* line of two tokens after it has been parsed.
C18_Witness ==
    /\ parsedGraphs # NotParsed
    /\ Len(info_output) = 3
    /\ StartsWith(info_output[1], "OUTPUT")
    /\ StartsWith(info_output[2], "GRAPH-URL")
    /\ info_output[3] = << "OUTPUT", "broken" >>

\* ---------------------------------------------------------------------------
\* Claims about the size exponent of the flat render
\* ---------------------------------------------------------------------------

\* C19: for every integer resolution, zero and negative values included, an
\* exponent in 5..13 is computed (the value is clamped, never rejected):
\* 32 gives 5, 256 gives 8, 8192 gives 13, everything below 32 gives 5,
\* everything above 8192 gives 13, and a larger resolution never gives a
\* smaller exponent.
C19_ExponentClamped ==
    log2_res # NotComputed =>
       /\ ~log2_res.raised
       /\ log2_res.value \in 5..13
       /\ flatResolution = 32 => log2_res.value = 5
       /\ flatResolution = 256 => log2_res.value = 8
       /\ flatResolution = 8192 => log2_res.value = 13
       /\ flatResolution < 32 => log2_res.value = 5
       /\ flatResolution > 8192 => log2_res.value = 13
       /\ (flatResolution - 1) \in Resolutions =>
             /\ ~SizeExponent(flatResolution - 1).raised
             /\ SizeExponent(flatResolution - 1).value <= log2_res.value

\* ---------------------------------------------------------------------------
\* Claims about cook_sbs
\* ---------------------------------------------------------------------------

\* C20: when cook_sbs has returned, it reports success exactly when sbscooker
\* exited with code zero and the package file exists; in every other outcome
\* (no compiler, no source, nonzero exit, zero exit without the file, timeout,
\* spawn error) it reports failure with an empty package path.
C20_CookSuccessIffExitZeroAndFile ==
    rpc = "cooked" =>
       /\ loc.cookOk <=> (loc.cookExit = 0 /\ fs.cookFile)
       /\ loc.cookOk <=> loc.cookPath
       /\ (~rcfg.sbscooker \/ ~loc.inp.srcExists) => ~loc.cookOk

\* cook_sbs has returned after sbscooker exited with code zero without
\* writing the package file.
C20_Witness ==
    /\ rpc = "cooked"
    /\ loc.cookExit = 0
    /\ ~fs.cookFile
    /\ ~loc.cookOk

\* ---------------------------------------------------------------------------
\* Claims about the failure policy of render
\* ---------------------------------------------------------------------------

\* C21: render (flat and composite path) never lets an exception cross its
\* boundary: every internal failure (a spawn error of sbsrender, an I/O
\* error, an invalid resolution) comes back as a failure RenderResult, so a
\* call of render never ends by raising.
C21_RenderNeverRaises ==
    loc.op = "render" => rpc # "raised"

\* render took the flat path (no composite render was asked for or the
\* composite package is missing).
FlatPath == loc.op = "render" /\ ~(loc.inp.useBall /\ rcfg.ball)

\* C22: a single-channel (flat) render reports success when sbsrender exited
\* with code zero and either the exact expected output file exists or, that
\* file being absent, some other file with the expected extension exists in
\* the output directory; it reports failure when the exit code is nonzero or
\* neither lookup finds a file.
C22_FlatSuccessTwoStepLookup ==
    (FlatPath /\ rpc = "finally" /\ loc.renderExit # NoExit) =>
       (loc.success <=>
           (loc.renderExit = 0 /\ (fs.outFile \/ fs.outOther)))

\* ---------------------------------------------------------------------------
\* Claims about the composite render
\* ---------------------------------------------------------------------------

\* The second pass of the composite render has been started.
SecondPassInvoked == tool.name = "final" \/ loc.renderExit # NoExit

\* C23: in the composite render only channels whose scratch file exists are
\* passed to the second pass; a role without a matching output or without a
\* rendered file is left out without error, and the second pass still runs
\* with zero channels: once the graphs are known, a failure result comes
\* only from the second pass itself (nonzero exit or no output file), never
\* from the number of channels.
C23_ZeroChannelsNotAFailure ==
    /\ (rpc = "final" \/ tool.name = "final") =>
          /\ loc.entries = loc.rendered_maps
          /\ loc.entries \subseteq fs.mapFiles
    /\ (rpc = "ball_finally" /\ loc.graphs /\ ~loc.exc) =>
          /\ SecondPassInvoked
          /\ loc.success <=> (loc.renderExit = 0 /\ fs.outFile)

\* The second pass ran with no channel at all and the render succeeded.
C23_Witness ==
    /\ rpc = "ball_finally"
    /\ loc.mapIdx > NumMapTypes
    /\ loc.entries = {}
    /\ loc.renderExit = 0
    /\ loc.success

\* ---------------------------------------------------------------------------
\* Claims about the error text of cook_sbs
\* ---------------------------------------------------------------------------

\* C25: on every failure path of cook_sbs on which sbscooker was run, the
\* error cook_sbs returns is the stderr text of sbscooker, verbatim.
C25_CookErrorIsStderr ==
    (rpc = "cooked" /\ ~loc.cookOk /\ loc.cookExit # NoExit) =>
       loc.cookError = loc.cookStderr

\* ---------------------------------------------------------------------------
\* Claims about the cleanup of render
\* ---------------------------------------------------------------------------

\* C28: the cleanup of render deletes only what this call created for
\* compilation: the caller's source file is never deleted, and on a success
\* result the output file still exists when render returns, for .sbs and
\* .sbsar inputs, with or without an explicit output_path.
C28_CleanupKeepsSourceAndOutput ==
    loc.op = "render" =>
       /\ fs.srcFile = loc.inp.srcExists
       /\ (CallEnded /\ loc.success) => fs.outFile

\* A render of an .sbs source without output_path has returned success after
\* its cleanup removed the compile directory.
C28_Witness ==
    /\ rpc = "returned" /\ loc.op = "render"
    /\ loc.inp.isSbs /\ ~loc.inp.outGiven
    /\ loc.temp_sbsar /\ ~fs.cookDir /\ ~fs.cookFile
    /\ loc.success
    /\ fs.srcFile /\ fs.outFile

\* ---------------------------------------------------------------------------
\* Claims about process_directory over the files of a directory, checked
\* under SpecListing
\* ---------------------------------------------------------------------------

\* The files find_files has to find.
Discovered == Glob(dcfg, ".sbs") \cup Glob(dcfg, ".sbsar")

ListCallEnded == lpc \in {"returned", "raised"}

\* C24: process_directory processes the discovered files in ascending
\* lexicographic path order, each exactly once; progress_callback is called
\* once per file, before that file is processed, with current = 1..total in
\* increasing order and the file's name.
C24_SortedOnceWithProgress ==
    (lpc # "start" /\ dcfg.exists) =>
       /\ {listing[i] : i \in 1..Len(listing)} = Discovered
       /\ \A i \in 1..(Len(listing) - 1) : PathLess(listing[i], listing[i + 1])
       /\ IsPrefix(processed, listing)
       /\ ListCallEnded => processed = listing
       /\ dcfg.callback =>
             /\ Len(progressCalls) =
                   Len(processed) + (IF lpc = "process" THEN 1 ELSE 0)
             /\ \A k \in 1..Len(progressCalls) :
                   progressCalls[k] = [current |-> k, total |-> Len(listing),
                                       filename |-> FileName(listing[k])]

\* C26: in a batch two distinct input files never get the same output path,
\* also when they share a stem (x.sbs and x.sbsar, or x.sbs in two
\* directories of a recursive run).
C26_OutputPathsDistinct ==
    \A i, j \in 1..Len(processed) :
       processed[i] # processed[j] => outputPaths[i] # outputPaths[j]

\* ---------------------------------------------------------------------------
\* Claims about queue_async, checked under SpecAsync
\* ---------------------------------------------------------------------------

\* C27: no event passed to queue_async is discarded, whether it is called
\* before start_async_processing, while the consumer runs or after
\* stop_async_processing: every call of queue_async leaves its event on a
\* queue, from where the consumer dispatches it.
C27_QueuedEventNotDiscarded ==
    [][nEvents' = nEvents + 1 =>
          \E q \in DOMAIN queues :
             /\ Len(queues'[q]) = Len(queues[q]) + 1
             /\ queues'[q][Len(queues'[q])].data = nEvents']_vars

\* ---------------------------------------------------------------------------
\* Claims about the target graph of the composite render, checked under
\* SpecTarget
\* ---------------------------------------------------------------------------

\* The positions of the graphs called graph_name.
Named(graph_name) == {i \in 1..Len(ballGraphs) : ballGraphs[i] = graph_name}

\* C29: the graph_name the composite render passes to sbsrender and reports
\* is the name of the graph whose outputs it renders: the requested graph
\* (the first of that name) when the package has it, else (no name given, or
\* a name no parsed graph has) the first parsed graph; a requested name that
\* matches no graph is never used.
C29_ReportedGraphIsTargetGraph ==
    (ballTarget # NotChosen /\ ballGraphs # <<>>) =>
       /\ ballTarget.index \in 1..Len(ballGraphs)
       /\ ballTarget.graph_name = ballGraphs[ballTarget.index]
       /\ Named(ballGraphName) # {} =>
             /\ ballTarget.graph_name = ballGraphName
             /\ \A i \in Named(ballGraphName) : ballTarget.index <= i
       /\ Named(ballGraphName) = {} => ballTarget.index = 1

\* A name no graph of the package has was requested, and the first graph was
\* chosen and reported.
C29_Witness ==
    /\ ballGraphName = "rust"
    /\ Len(ballGraphs) = 2
    /\ ballTarget # NotChosen
    /\ ballTarget.index = 1
    /\ ballTarget.graph_name = ballGraphs[1]

\* ---------------------------------------------------------------------------
\* Claims about the reported resolution, checked under SpecExponent
\* ---------------------------------------------------------------------------

\* RenderResult(..., resolution=(resolution, resolution)): the argument.
ReportedResolution(resolution) == resolution

RECURSIVE Pow2(_)
Pow2(e) == IF e = 0 THEN 1 ELSE 2 * Pow2(e - 1)

\* C30: the resolution a render reports equals the pixel size requested from
\* sbsrender, 2 to the power of the exponent sent, for every requested
\* resolution, values outside the supported range and values that are not
\* powers of two included.
C30_ReportedSizeIsRequestedSize ==
    (log2_res # NotComputed /\ ~log2_res.raised) =>
       ReportedResolution(flatResolution) = Pow2(log2_res.value)

====
